---- MODULE Spec2Model ----
(***************************************************************************)
(* Verification model of dbpilot's server side: the write classifier of    *)
(* the query route, the server-held read-only state, the adapter registry, *)
(* the adapters' pools and the metadata cache, with the route handlers     *)
(* that compose them.                                                      *)
(*                                                                         *)
(* Text is modelled as a sequence of symbols.  The punctuation the         *)
(* classifier's regular expressions look at ("-", "/", "*", "(", ")", ".", *)
(* ";", blank, newline) is one symbol per character; a word (a maximal run *)
(* of letters) is one symbol, so that no keyword straddles two symbols.    *)
(*                                                                         *)
(* A handler runs atomically from one real I/O await to the next (the      *)
(* JavaScript event loop); every await of a driver call is a point where   *)
(* other handlers interleave.                                              *)
(***************************************************************************)
EXTENDS Integers, Sequences, FiniteSets, TLC

VARIABLES
  query,          \* classifier run: the raw query text
  cpc,            \* classifier run: "input" | "done"
  sqlWrite,       \* classifier run: result of isWriteQuery
  mongoWrite,     \* classifier run: result of isMongoWriteQuery
  adapterCache,   \* factory.ts: Map connection id -> adapter (index into adapters)
  adapters,       \* the adapter objects created for the registry
  pools,          \* every pool/client an adapter's connect() created
  readOnlyState,  \* server-state.ts: Map connection id -> boolean
  schemaCache,    \* cache.ts: MemoryCache.cache, key -> entry
  reqs,           \* the request handlers in flight, one per slot
  started,        \* how many requests the server has taken so far
  resp,           \* the response the last step sent (the handler as it stood), if any
  unit,           \* adapter run: one adapter object, its pools and its calls in flight
  mcache,         \* cache run: one MemoryCache, the clock and the last read
  ident,          \* identifier run: a name, its validation and its quoting
  oper,           \* operation run: one getRows / insertRow / updateRow / deleteRow call
  page,           \* data-read run: the route's page parameters and the options it hands on
  paging,         \* pagination run: a table of one backend read page by page
  edit,           \* row-edit run: one PUT or DELETE /api/data and the table it edits
  errs,           \* error run: an error message on its way to the caller
  stats,          \* statistics run: one getTableStats / getDatabaseStats call
  sample,         \* schema run: the sampled documents of one getTableSchema call
  client          \* client run: the browser's store and the server flag it mirrors

vars == <<query, cpc, sqlWrite, mongoWrite,
          adapterCache, adapters, pools, readOnlyState, schemaCache, reqs, started, resp,
          unit, mcache, ident, oper, page, paging, edit, errs, stats, sample, client>>

clsVars == <<query, cpc, sqlWrite, mongoWrite>>
srvVars == <<adapterCache, adapters, pools, readOnlyState, schemaCache, reqs, started, resp>>
libVars == <<unit, mcache, ident, oper, page, paging, edit, errs, stats, sample, client>>

(***************************************************************************)
(* Bounds                                                                  *)
(***************************************************************************)
MaxQueryLen == 6
MaxReqs == 2
MaxRequests == 3
MaxAdapters == 2
MaxPools == 3
MaxUnitCalls == 4
MaxNow == 3
MaxTtl == 2

(***************************************************************************)
(* Text helpers                                                            *)
(***************************************************************************)
\* the symbols the exhaustive classifier run draws query text from
QueryAlphabet == {"-", "\n", "/", "*", " ", ")", ";", "DELETE", "vacuum", "SELECT"}

\* \s of the regular expressions
IsSpace(c) == c \in {" ", "\n"}

\* a word symbol (letters), as opposed to punctuation and whitespace
IsWord(c) == c \notin {"-", "\n", "/", "*", " ", "(", ")", ".", ";"}

\* String.prototype.toUpperCase on one symbol
UpperSym(c) ==
  CASE c = "vacuum" -> "VACUUM"
    [] c = "drop" -> "DROP"
    [] c = "db" -> "DB"
    [] c = "x" -> "X"
    [] OTHER -> c

toUpperCase(s) == [i \in 1..Len(s) |-> UpperSym(s[i])]

\* String.prototype.startsWith
startsWith(s, p) == Len(s) >= Len(p) /\ SubSeq(s, 1, Len(p)) = p

\* .replace(/--.*$/gm, ""): from "--" up to, not including, the line end
RECURSIVE stripLineComments(_, _)
stripLineComments(s, inComment) ==
  IF s = <<>> THEN <<>>
  ELSE IF inComment
    THEN IF Head(s) = "\n"
           THEN <<"\n">> \o stripLineComments(Tail(s), FALSE)
           ELSE stripLineComments(Tail(s), TRUE)
  ELSE IF Len(s) >= 2 /\ s[1] = "-" /\ s[2] = "-"
    THEN stripLineComments(Tail(Tail(s)), TRUE)
  ELSE <<Head(s)>> \o stripLineComments(Tail(s), FALSE)

\* the positions j >= 3 where a "*/" closes a "/*" that opens at position 1
BlockEnds(s) == {j \in 3..(Len(s) - 1) : s[j] = "*" /\ s[j + 1] = "/"}

Min(S) == CHOOSE m \in S : \A n \in S : m <= n

\* .replace(/\/\*[\s\S]*?\*\//g, ""): the match is deleted, nothing is put
\* in its place; an unterminated "/*" is left alone
RECURSIVE stripBlockComments(_)
stripBlockComments(s) ==
  IF s = <<>> THEN <<>>
  ELSE IF Len(s) >= 2 /\ s[1] = "/" /\ s[2] = "*" /\ BlockEnds(s) # {}
    THEN stripBlockComments(SubSeq(s, Min(BlockEnds(s)) + 2, Len(s)))
  ELSE <<Head(s)>> \o stripBlockComments(Tail(s))

\* .replace(/\s+/g, " ")
RECURSIVE normalizeWhitespace(_)
normalizeWhitespace(s) ==
  IF s = <<>> THEN <<>>
  ELSE IF IsSpace(Head(s))
    THEN IF Len(s) >= 2 /\ IsSpace(s[2])
           THEN normalizeWhitespace(Tail(s))
           ELSE <<" ">> \o normalizeWhitespace(Tail(s))
  ELSE <<Head(s)>> \o normalizeWhitespace(Tail(s))

RECURSIVE trimStart(_)
trimStart(s) ==
  IF s # <<>> /\ IsSpace(Head(s)) THEN trimStart(Tail(s)) ELSE s

RECURSIVE trimEnd(_)
trimEnd(s) ==
  IF s # <<>> /\ IsSpace(s[Len(s)]) THEN trimEnd(SubSeq(s, 1, Len(s) - 1)) ELSE s

\* String.prototype.trim
trim(s) == trimEnd(trimStart(s))

(***************************************************************************)
(* Write classifier (query route)                                          *)
(***************************************************************************)
\* const stripped = query.replace(...).replace(...).replace(...).trim().toUpperCase()
stripped(q) ==
  toUpperCase(trim(normalizeWhitespace(stripBlockComments(stripLineComments(q, FALSE)))))

writeKeywords ==
  {"INSERT", "UPDATE", "DELETE", "DROP", "CREATE", "ALTER", "TRUNCATE", "GRANT",
   "REVOKE", "COPY", "VACUUM", "REINDEX", "CLUSTER", "DISCARD", "LOCK"}

\* stripped.startsWith(keyword + " ") || stripped === keyword
startsWithWrite(s) ==
  \E keyword \in writeKeywords : startsWith(s, <<keyword, " ">>) \/ s = <<keyword>>

\* new RegExp(`\\)\\s*${keyword}\\s+`, "i").test(stripped)
containsWriteInCTE(s) ==
  \E keyword \in writeKeywords :
    \E i \in 1..Len(s) : \E j \in (i + 1)..(Len(s) - 1) :
      /\ s[i] = ")"
      /\ \A k \in (i + 1)..(j - 1) : IsSpace(s[k])
      /\ UpperSym(s[j]) = keyword
      /\ IsSpace(s[j + 1])

isWriteQuery(q) == startsWithWrite(stripped(q)) \/ containsWriteInCTE(stripped(q))

mongoWriteOps ==
  {"insertOne", "insertMany", "updateOne", "updateMany", "deleteOne", "deleteMany",
   "drop", "createIndex", "dropIndex", "dropIndexes", "renameCollection",
   "replaceOne", "bulkWrite"}

\* mongoWriteOps.some((op) => query.includes(`.${op}(`))
isMongoWriteQuery(q) ==
  \E op \in mongoWriteOps :
    \E i \in 1..(Len(q) - 2) : q[i] = "." /\ q[i + 1] = op /\ q[i + 2] = "("

\* every text of at most MaxQueryLen symbols
QueryTexts == UNION {[1..n -> QueryAlphabet] : n \in 0..MaxQueryLen}


(***************************************************************************)
(* Server state: inputs and helpers                                        *)
(***************************************************************************)
ConnIds == {"conn_1", "conn_2"}
Slots == 1..MaxReqs

\* an optional JSON field: <<>> when absent, <<v>> when given
Optional(S) == {<<>>} \cup {<<v>> : v \in S}

\* the raw queries the query route is driven with
QSelect == <<"SELECT", " ", "x">>
QDelete == <<"DELETE", " ", "x">>
QSelectDrop == <<"SELECT", " ", "x", ".", "drop", "(", ")">>
QMongoDrop == <<"db", ".", "x", ".", "drop", "(", ")">>
RouteQueries == {QSelect, QDelete, QSelectDrop, QMongoDrop}

\* a request slot that holds no handler
IdleReq ==
  [kind |-> "idle", pc |-> "idle", id |-> "", type |-> "", cs |-> "",
   q |-> <<>>, readOnly |-> <<>>,
   adapter |-> 0, prev |-> 0, pool |-> 0,
   roSeen |-> <<>>, called |-> FALSE, roAtCall |-> <<>>, status |-> 0, log |-> <<>>]

\* NextResponse.json(..., {status})
Respond(req, status) == [req EXCEPT !.pc = "done", !.status = status]

Free(r) == reqs[r].pc = "idle"

\* slot r's handler becomes x: it goes on to its next await, or it has
\* answered, which frees the slot and makes x the response of this step
Settle(r, x) ==
  /\ reqs' = [reqs EXCEPT ![r] = IF x.pc = "done" THEN IdleReq ELSE x]
  /\ resp' = IF x.pc = "done" THEN x ELSE IdleReq

\* a new request takes the first slot that holds no handler in flight
CanStart(r) ==
  /\ started < MaxRequests
  /\ Free(r) /\ \A s \in Slots : s < r => ~Free(s)

\* what a step that takes a new request, and one that resumes a handler,
\* leave of the variables its action does not mention
Taken == started' = started + 1 /\ UNCHANGED <<clsVars, libVars>>
Resumed == UNCHANGED <<started, clsVars, libVars>>

(***************************************************************************)
(* server-state.ts                                                         *)
(***************************************************************************)
\* readOnlyState.set(connectionId, readOnly)
setReadOnlyMode(st, connectionId, readOnly) ==
  [i \in DOMAIN st \cup {connectionId} |->
     IF i = connectionId THEN readOnly ELSE st[i]]

\* an isReadOnlyMode that reads an id without state as false
isReadOnlyModeDefaultFalse(st, connectionId) ==
  IF connectionId \in DOMAIN st THEN st[connectionId] ELSE FALSE

\* readOnlyState.get(connectionId) ?? true
isReadOnlyMode(st, connectionId) ==
  IF connectionId \in DOMAIN st THEN st[connectionId] ELSE TRUE

\* readOnlyState.delete(connectionId)
clearReadOnlyState(st, connectionId) ==
  [i \in DOMAIN st \ {connectionId} |-> st[i]]

(***************************************************************************)
(* cache.ts: MemoryCache                                                   *)
(***************************************************************************)
\* cacheKey.tables(connectionId) = `${connectionId}:tables`
cacheKeyTables(connectionId) == <<connectionId, "tables">>

\* schemaCache.set(key, data, ttl): the whole entry is replaced
cacheSet(c, key, data) ==
  [k \in DOMAIN c \cup {key} |-> IF k = key THEN [data |-> data] ELSE c[k]]

\* schemaCache.delete(key), as get() does for an expired entry
cacheDelete(c, key) == [k \in DOMAIN c \ {key} |-> c[k]]

\* deleteByPrefix(`${connectionId}:`)
clearConnection(c, connectionId) ==
  [k \in {k2 \in DOMAIN c : k2[1] # connectionId} |-> c[k]]

(***************************************************************************)
(* factory.ts: the adapter registry                                        *)
(***************************************************************************)
\* new PostgresAdapter(cs) | new MongoDBAdapter(cs) | new ClickHouseAdapter(cs)
createAdapter(type, connectionString) ==
  [type |-> type, cs |-> connectionString, pool |-> 0, connected |-> FALSE]

\* a registration that replaces the adapter an id already has
getOrCreateAdapterOverwriting(reg, ads, id, type, connectionString) ==
  [cache |-> [i \in DOMAIN reg \cup {id} |->
                 IF i = id THEN Len(ads) + 1 ELSE reg[i]],
   adapters |-> Append(ads, createAdapter(type, connectionString)),
   adapter |-> Len(ads) + 1]

\* getOrCreateAdapter(id, type, connectionString): result and new registry
getOrCreateAdapter(reg, ads, id, type, connectionString) ==
  IF id \in DOMAIN reg
    THEN [cache |-> reg, adapters |-> ads, adapter |-> reg[id]]
    ELSE [cache |-> [i \in DOMAIN reg \cup {id} |->
                        IF i = id THEN Len(ads) + 1 ELSE reg[i]],
          adapters |-> Append(ads, createAdapter(type, connectionString)),
          adapter |-> Len(ads) + 1]

\* adapterCache.get(id), 0 for undefined
getCachedAdapter(reg, id) == IF id \in DOMAIN reg THEN reg[id] ELSE 0

\* adapterCache.delete(id)
registryDelete(reg, id) == [i \in DOMAIN reg \ {id} |-> reg[i]]

(***************************************************************************)
(* Adapters: connect / disconnect                                          *)
(***************************************************************************)
\* connect() up to its await: this.pool = new Pool(...) (createClient, new
\* MongoClient), whatever this.pool held before
connectBeginAdapters(ads, a, ps) ==
  [ads EXCEPT ![a].pool = Len(ps) + 1]

connectBeginPools(ps, a) ==
  Append(ps, [owner |-> a, open |-> TRUE, ends |-> 0])

\* connect() after its await: connected = true; on failure the relational
\* and document adapters set connected = false, the columnar one has no catch
connectEnd(ads, a, ok) ==
  IF ok THEN [ads EXCEPT ![a].connected = TRUE]
  ELSE IF ads[a].type = "clickhouse" THEN ads
  ELSE [ads EXCEPT ![a].connected = FALSE]

\* disconnect() up to its await: pool.end() / client.close() on the current pool
disconnectBeginPools(ps, p) ==
  [ps EXCEPT ![p].open = FALSE, ![p].ends = @ + 1]

\* disconnect() after its await: this.pool = null; this.connected = false
disconnectEnd(ads, a) ==
  [ads EXCEPT ![a].pool = 0, ![a].connected = FALSE]


(***************************************************************************)
(* Route handlers.  A body or URL field that a handler reads only after an *)
(* await is drawn at the step that reads it; the field readOnly of a       *)
(* request record is what the client sent, kept for the response only.     *)
(***************************************************************************)
\* if (!adapter.isConnected()) { await adapter.connect(); }: the call
Reconnects(a) == ~adapters[a].connected

BeginReconnect(r, req) ==
  /\ Len(pools) < MaxPools
  /\ adapters' = connectBeginAdapters(adapters, req.adapter, pools)
  /\ pools' = connectBeginPools(pools, req.adapter)
  /\ Settle(r, [req EXCEPT !.pc = "conn", !.pool = Len(pools) + 1])

---------------------------------------------------------------------------
\* POST /api/connect: body parsed, testConnection() awaited
ConnectPost(r, id, valid) ==
  /\ CanStart(r)
  /\ Settle(r, IF ~valid
                 THEN Respond([IdleReq EXCEPT !.kind = "connect"], 400)
                 ELSE [IdleReq EXCEPT !.kind = "connect", !.pc = "test", !.id = id])
  /\ UNCHANGED <<adapterCache, adapters, pools, readOnlyState, schemaCache>>

\* testConnection() returned: getOrCreateAdapter, cachedAdapter.connect() called
ConnectTested(r, success, type, cs) ==
  LET req == reqs[r] IN
  /\ req.kind = "connect" /\ req.pc = "test"
  /\ IF success /\ req.id # ""
       THEN LET g == getOrCreateAdapter(adapterCache, adapters, req.id, type, cs)
                a == g.adapter
            IN /\ Len(g.adapters) <= MaxAdapters
               /\ Len(pools) < MaxPools
               /\ adapterCache' = g.cache
               /\ adapters' = connectBeginAdapters(g.adapters, a, pools)
               /\ pools' = connectBeginPools(pools, a)
               /\ Settle(r, [req EXCEPT !.pc = "conn", !.type = type, !.cs = cs,
                                        !.adapter = a,
                                        !.prev = getCachedAdapter(adapterCache, req.id),
                                        !.pool = Len(pools) + 1])
       ELSE /\ Settle(r, Respond(req, 200))
            /\ UNCHANGED <<adapterCache, adapters, pools>>
  /\ UNCHANGED <<readOnlyState, schemaCache>>

\* connect() returned: setReadOnlyMode(connectionId, readOnly ?? false), or 500
ConnectConnected(r, ok, readOnly) ==
  LET req == [reqs[r] EXCEPT !.readOnly = readOnly] IN
  /\ req.kind = "connect" /\ req.pc = "conn"
  /\ adapters' = connectEnd(adapters, req.adapter, ok)
  /\ IF ok
       THEN /\ readOnlyState' = setReadOnlyMode(readOnlyState, req.id,
                 IF readOnly = <<>> THEN FALSE ELSE readOnly[1])
            /\ Settle(r, Respond(req, 200))
       ELSE /\ Settle(r, Respond(req, 500))
            /\ UNCHANGED readOnlyState
  /\ UNCHANGED <<adapterCache, pools, schemaCache>>

---------------------------------------------------------------------------
\* removeAdapter's statements after the lookup, in program order
removeAdapterStepsDeleteFirst == <<"delete", "disconnect", "evict">>

removeAdapterSteps == <<"disconnect", "delete", "evict">>

\* one statement of removeAdapter on the registry and the cache
RemoveStep(st, step, id) ==
  CASE step = "delete" -> [st EXCEPT !.reg = registryDelete(st.reg, id)]
    [] step = "evict" -> [st EXCEPT !.cache = clearConnection(st.cache, id)]
    [] OTHER -> st

RECURSIVE RemoveRun(_, _, _)
RemoveRun(st, steps, id) ==
  IF steps = <<>> THEN st
  ELSE RemoveRun(RemoveStep(st, Head(steps), id), Tail(steps), id)

\* the statements up to and including the awaited disconnect, and the rest
DisconnectAt(steps) == CHOOSE i \in 1..Len(steps) : steps[i] = "disconnect"
UpToDisconnect(steps) == SubSeq(steps, 1, DisconnectAt(steps))
AfterDisconnect(steps) == SubSeq(steps, DisconnectAt(steps) + 1, Len(steps))

\* DELETE /api/connect: removeAdapter(id) up to the await of disconnect();
\* with no adapter, or no pool to end, it runs through to the response
ConnectDelete(r, id, valid) ==
  LET a == getCachedAdapter(adapterCache, id)
      req == [IdleReq EXCEPT !.kind = "remove", !.id = id, !.adapter = a]
      st0 == [reg |-> adapterCache, cache |-> schemaCache]
  IN
  /\ CanStart(r)
  /\ IF ~valid
       THEN /\ Settle(r, Respond([req EXCEPT !.adapter = 0], 400))
            /\ UNCHANGED <<adapterCache, adapters, pools, readOnlyState, schemaCache>>
     ELSE IF a = 0
       THEN /\ readOnlyState' = clearReadOnlyState(readOnlyState, id)
            /\ Settle(r, Respond(req, 200))
            /\ UNCHANGED <<adapterCache, adapters, pools, schemaCache>>
     ELSE IF adapters[a].pool = 0
       THEN LET st == RemoveRun(st0, removeAdapterSteps, id) IN
            /\ adapterCache' = st.reg
            /\ schemaCache' = st.cache
            /\ readOnlyState' = clearReadOnlyState(readOnlyState, id)
            /\ Settle(r, Respond([req EXCEPT !.log = removeAdapterSteps], 200))
            /\ UNCHANGED <<adapters, pools>>
     ELSE LET st == RemoveRun(st0, UpToDisconnect(removeAdapterSteps), id) IN
            /\ adapterCache' = st.reg
            /\ schemaCache' = st.cache
            /\ pools' = disconnectBeginPools(pools, adapters[a].pool)
            /\ Settle(r, [req EXCEPT !.pc = "disc", !.pool = adapters[a].pool,
                                     !.log = UpToDisconnect(removeAdapterSteps)])
            /\ UNCHANGED <<adapters, readOnlyState>>

\* pool.end() returned: the rest of disconnect() and of removeAdapter, then
\* clearReadOnlyState; a rejected end() leaves everything and answers 500
ConnectDeleteDisconnected(r, ok) ==
  LET req == reqs[r]
      st == RemoveRun([reg |-> adapterCache, cache |-> schemaCache],
                      AfterDisconnect(removeAdapterSteps), req.id)
  IN
  /\ req.kind = "remove" /\ req.pc = "disc"
  /\ IF ok
       THEN /\ adapters' = disconnectEnd(adapters, req.adapter)
            /\ adapterCache' = st.reg
            /\ schemaCache' = st.cache
            /\ readOnlyState' = clearReadOnlyState(readOnlyState, req.id)
            /\ Settle(r, Respond([req EXCEPT !.log = removeAdapterSteps], 200))
       ELSE /\ Settle(r, Respond(req, 500))
            /\ UNCHANGED <<adapterCache, adapters, readOnlyState, schemaCache>>
  /\ UNCHANGED pools

---------------------------------------------------------------------------
\* POST /api/settings
SettingsPost(r, id, readOnly, valid) ==
  LET req == [IdleReq EXCEPT !.kind = "settings", !.id = id, !.readOnly = <<readOnly>>] IN
  /\ CanStart(r)
  /\ IF ~valid
       THEN /\ Settle(r, Respond(req, 400))
            /\ UNCHANGED readOnlyState
     ELSE IF getCachedAdapter(adapterCache, id) = 0
       THEN /\ Settle(r, Respond(req, 404))
            /\ UNCHANGED readOnlyState
     ELSE /\ readOnlyState' = setReadOnlyMode(readOnlyState, id, readOnly)
          /\ Settle(r, Respond(req, 200))
  /\ UNCHANGED <<adapterCache, adapters, pools, schemaCache>>

---------------------------------------------------------------------------
\* GET /api/tables from the cache lookup on: answer from the cache, or call
\* adapter.getTables() (getPool() throws when the adapter holds no pool)
TablesLookup(r, req, ads, noCache, expired) ==
  LET key == cacheKeyTables(req.id)
      present == ~noCache /\ key \in DOMAIN schemaCache
  IN
  /\ schemaCache' = IF present /\ expired THEN cacheDelete(schemaCache, key)
                    ELSE schemaCache
  /\ Settle(r, IF present /\ ~expired THEN Respond(req, 200)
               ELSE IF ads[req.adapter].pool = 0 THEN Respond(req, 500)
               ELSE [req EXCEPT !.pc = "fetch"])

\* GET /api/tables: lookup of the adapter, reconnect when not connected
TablesGet(r, id, noCache, expired) ==
  LET a == getCachedAdapter(adapterCache, id)
      req == [IdleReq EXCEPT !.kind = "tables", !.id = id, !.adapter = a]
  IN
  /\ CanStart(r)
  /\ IF a = 0
       THEN /\ Settle(r, Respond(req, 404))
            /\ UNCHANGED <<adapters, pools, schemaCache>>
     ELSE IF Reconnects(a)
       THEN BeginReconnect(r, req) /\ UNCHANGED schemaCache
     ELSE TablesLookup(r, req, adapters, noCache, expired) /\ UNCHANGED <<adapters, pools>>
  /\ UNCHANGED <<adapterCache, readOnlyState>>

\* connect() returned to the tables handler
TablesConnected(r, ok, noCache, expired) ==
  LET req == reqs[r] IN
  /\ req.kind = "tables" /\ req.pc = "conn"
  /\ adapters' = connectEnd(adapters, req.adapter, ok)
  /\ IF ok
       THEN TablesLookup(r, req, adapters', noCache, expired)
       ELSE /\ Settle(r, Respond(req, 500))
            /\ UNCHANGED schemaCache
  /\ UNCHANGED <<adapterCache, pools, readOnlyState>>

\* getTables() returned: schemaCache.set(tablesCacheKey, tables, TTL)
TablesFetched(r, ok) ==
  LET req == reqs[r] IN
  /\ req.kind = "tables" /\ req.pc = "fetch"
  /\ IF ok
       THEN /\ schemaCache' = cacheSet(schemaCache, cacheKeyTables(req.id), req.adapter)
            /\ Settle(r, Respond(req, 200))
       ELSE /\ Settle(r, Respond(req, 500))
            /\ UNCHANGED schemaCache
  /\ UNCHANGED <<adapterCache, adapters, pools, readOnlyState>>

---------------------------------------------------------------------------
WriteKinds == {"insert", "update", "delete"}

\* a check that believes the flag the client sends
dataReadOnlyCheckClientFlag(st, connectionId, clientFlag) == clientFlag = <<TRUE>>

\* if (isReadOnlyMode(connectionId!)) of the data routes
dataReadOnlyCheck(st, connectionId, clientFlag) == isReadOnlyMode(st, connectionId)

\* a data route from the body checks on: PUT answers 400 when only primary-key
\* fields were sent, DELETE when primaryKey is no JSON; then the adapter's
\* insertRow / updateRow / deleteRow is called
WriteDispatch(r, req, ads, bodyOk) ==
  Settle(r,
    IF req.kind \in {"update", "delete"} /\ ~bodyOk THEN Respond(req, 400)
    ELSE LET c == [req EXCEPT !.called = TRUE,
                              !.roAtCall = <<isReadOnlyMode(readOnlyState, req.id)>>]
         IN IF ads[req.adapter].pool = 0 THEN Respond(c, 500)
            ELSE [c EXCEPT !.pc = "exec"])

\* a data route up to its first await
WriteStart(r, kind, id, valid, bodyOk, readOnly) ==
  LET a == getCachedAdapter(adapterCache, id)
      req0 == [IdleReq EXCEPT !.kind = kind, !.id = id]
      req == [req0 EXCEPT !.roSeen = <<isReadOnlyMode(readOnlyState, id)>>]
  IN
  /\ CanStart(r)
  /\ IF ~valid
       THEN /\ Settle(r, Respond([req0 EXCEPT !.readOnly = readOnly], 400))
            /\ UNCHANGED <<adapters, pools>>
     ELSE IF dataReadOnlyCheck(readOnlyState, id, readOnly)
       THEN /\ Settle(r, Respond([req EXCEPT !.readOnly = readOnly], 403))
            /\ UNCHANGED <<adapters, pools>>
     ELSE IF a = 0
       THEN /\ Settle(r, Respond(req, 404))
            /\ UNCHANGED <<adapters, pools>>
     ELSE IF Reconnects(a)
       THEN BeginReconnect(r, [req EXCEPT !.adapter = a])
     ELSE WriteDispatch(r, [req EXCEPT !.adapter = a], adapters, bodyOk)
          /\ UNCHANGED <<adapters, pools>>
  /\ UNCHANGED <<adapterCache, readOnlyState, schemaCache>>

\* POST /api/data (insert)
DataPost(r, id, valid, readOnly) == WriteStart(r, "insert", id, valid, TRUE, readOnly)

\* PUT /api/data (update)
DataPut(r, id, valid, bodyOk, readOnly) ==
  WriteStart(r, "update", id, valid, bodyOk, readOnly)

\* DELETE /api/data (delete)
DataDelete(r, id, valid, bodyOk, readOnly) ==
  WriteStart(r, "delete", id, valid, bodyOk, readOnly)

\* connect() returned to a data route
WriteConnected(r, ok, bodyOk) ==
  LET req == reqs[r] IN
  /\ req.kind \in WriteKinds /\ req.pc = "conn"
  /\ req.kind = "insert" => bodyOk
  /\ adapters' = connectEnd(adapters, req.adapter, ok)
  /\ IF ok THEN WriteDispatch(r, req, adapters', bodyOk)
     ELSE Settle(r, Respond(req, 500))
  /\ UNCHANGED <<adapterCache, pools, readOnlyState, schemaCache>>

\* insertRow / updateRow / deleteRow returned
WriteExecuted(r, ok) ==
  LET req == reqs[r] IN
  /\ req.kind \in WriteKinds /\ req.pc = "exec"
  /\ Settle(r, Respond(req, IF ok THEN 200 ELSE 500))
  /\ UNCHANGED <<adapterCache, adapters, pools, readOnlyState, schemaCache>>

---------------------------------------------------------------------------
\* the earlier form of the query route's check: if (readOnly) of the request body
queryBlockedClientFlag(st, connectionId, q, clientFlag) ==
  clientFlag = <<TRUE>> /\ (isWriteQuery(q) \/ isMongoWriteQuery(q))

\* if (isReadOnlyMode(connectionId!)) { isWrite = isWriteQuery(query) ||
\* isMongoWriteQuery(query); if (isWrite) return 403 }
queryBlocked(st, connectionId, q, clientFlag) ==
  isReadOnlyMode(st, connectionId) /\ (isWriteQuery(q) \/ isMongoWriteQuery(q))

\* adapter.executeQuery(query) is called
QueryDispatch(r, req, ads) ==
  Settle(r,
    LET c == [req EXCEPT !.called = TRUE,
                         !.roAtCall = <<isReadOnlyMode(readOnlyState, req.id)>>]
    IN IF ads[req.adapter].pool = 0 THEN Respond(c, 500)
       ELSE [c EXCEPT !.pc = "exec"])

\* POST /api/query up to its first await
QueryPost(r, id, q, valid, readOnly) ==
  LET a == getCachedAdapter(adapterCache, id)
      req0 == [IdleReq EXCEPT !.kind = "query", !.id = id, !.q = q]
      req == [req0 EXCEPT !.roSeen = <<isReadOnlyMode(readOnlyState, id)>>]
  IN
  /\ CanStart(r)
  /\ IF ~valid
       THEN /\ Settle(r, Respond([req0 EXCEPT !.readOnly = readOnly], 400))
            /\ UNCHANGED <<adapters, pools>>
     ELSE IF queryBlocked(readOnlyState, id, q, readOnly)
       THEN /\ Settle(r, Respond([req EXCEPT !.readOnly = readOnly], 403))
            /\ UNCHANGED <<adapters, pools>>
     ELSE IF a = 0
       THEN /\ Settle(r, Respond(req, 404))
            /\ UNCHANGED <<adapters, pools>>
     ELSE IF Reconnects(a)
       THEN BeginReconnect(r, [req EXCEPT !.adapter = a])
     ELSE QueryDispatch(r, [req EXCEPT !.adapter = a], adapters)
          /\ UNCHANGED <<adapters, pools>>
  /\ UNCHANGED <<adapterCache, readOnlyState, schemaCache>>

\* connect() returned to the query route
QueryConnected(r, ok) ==
  LET req == reqs[r] IN
  /\ req.kind = "query" /\ req.pc = "conn"
  /\ adapters' = connectEnd(adapters, req.adapter, ok)
  /\ IF ok THEN QueryDispatch(r, req, adapters')
     ELSE Settle(r, Respond(req, 500))
  /\ UNCHANGED <<adapterCache, pools, readOnlyState, schemaCache>>

\* executeQuery returned: its result, with or without an error field, is
\* the response
QueryExecuted(r) ==
  LET req == reqs[r] IN
  /\ req.kind = "query" /\ req.pc = "exec"
  /\ Settle(r, Respond(req, 200))
  /\ UNCHANGED <<adapterCache, adapters, pools, readOnlyState, schemaCache>>

(***************************************************************************)
(* Classifier run: one query text, classified by both rules                *)
(***************************************************************************)
Classify ==
  /\ cpc = "input"
  /\ cpc' = "done"
  /\ sqlWrite' = isWriteQuery(query)
  /\ mongoWrite' = isMongoWriteQuery(query)
  /\ UNCHANGED <<query, srvVars, libVars>>

(***************************************************************************)
(* Specifications                                                          *)
(***************************************************************************)
\* the server process after start-up: empty maps, no request in flight
InitServer ==
  /\ adapterCache = <<>>
  /\ adapters = <<>>
  /\ pools = <<>>
  /\ readOnlyState = <<>>
  /\ schemaCache = <<>>
  /\ reqs = [r \in Slots |-> IdleReq]
  /\ started = 0
  /\ resp = IdleReq

\* no classifier run
InitNoQuery ==
  query = <<>> /\ cpc = "done" /\ sqlWrite = FALSE /\ mongoWrite = FALSE

\* none of the runs of a single object or function
NoUnit == unit = <<>>
NoCache == mcache = <<>>
NoIdent == ident = <<>>
NoOper == oper = <<>>
NoPage == page = <<>> /\ paging = <<>>
NoEdit == edit = <<>>
NoErrs == errs = <<>>
NoStats == stats = <<>>
NoSample == sample = <<>>
NoClient == client = <<>>
NoRest == NoEdit /\ NoErrs /\ NoStats /\ NoSample /\ NoClient

Init ==
  /\ InitServer /\ InitNoQuery
  /\ NoUnit /\ NoCache /\ NoIdent /\ NoOper /\ NoPage /\ NoRest

InitClassifier ==
  /\ InitServer
  /\ query \in QueryTexts /\ cpc = "input" /\ sqlWrite = FALSE /\ mongoWrite = FALSE
  /\ NoUnit /\ NoCache /\ NoIdent /\ NoOper /\ NoPage /\ NoRest

\* the connection descriptors a client sends: backend kind and connection string
Descriptors ==
  {[type |-> "postgresql", cs |-> "cs1"], [type |-> "postgresql", cs |-> "cs2"],
   [type |-> "mongodb", cs |-> "cs1"], [type |-> "clickhouse", cs |-> "cs1"]}

StepConnect ==
  \/ \E r \in Slots, id \in ConnIds \cup {""}, valid \in BOOLEAN :
       ConnectPost(r, id, valid) /\ Taken
  \/ \E r \in Slots, success \in BOOLEAN, d \in Descriptors :
       ConnectTested(r, success, d.type, d.cs) /\ Resumed
  \/ \E r \in Slots, ok \in BOOLEAN, readOnly \in Optional(BOOLEAN) :
       ConnectConnected(r, ok, readOnly) /\ Resumed

StepRemove ==
  \/ \E r \in Slots, id \in ConnIds, valid \in BOOLEAN :
       ConnectDelete(r, id, valid) /\ Taken
  \/ \E r \in Slots, ok \in BOOLEAN : ConnectDeleteDisconnected(r, ok) /\ Resumed

StepSettings ==
  \E r \in Slots, id \in ConnIds, readOnly \in BOOLEAN, valid \in BOOLEAN :
    SettingsPost(r, id, readOnly, valid) /\ Taken

StepTables ==
  \/ \E r \in Slots, id \in ConnIds, noCache \in BOOLEAN, expired \in BOOLEAN :
       TablesGet(r, id, noCache, expired) /\ Taken
  \/ \E r \in Slots, ok \in BOOLEAN, noCache \in BOOLEAN, expired \in BOOLEAN :
       TablesConnected(r, ok, noCache, expired) /\ Resumed
  \/ \E r \in Slots, ok \in BOOLEAN : TablesFetched(r, ok) /\ Resumed

StepData ==
  \/ \E r \in Slots, id \in ConnIds, valid \in BOOLEAN, readOnly \in Optional(BOOLEAN) :
       DataPost(r, id, valid, readOnly) /\ Taken
  \/ \E r \in Slots, id \in ConnIds, valid \in BOOLEAN, bodyOk \in BOOLEAN,
        readOnly \in Optional(BOOLEAN) :
       DataPut(r, id, valid, bodyOk, readOnly) /\ Taken
  \/ \E r \in Slots, id \in ConnIds, valid \in BOOLEAN, bodyOk \in BOOLEAN,
        readOnly \in Optional(BOOLEAN) :
       DataDelete(r, id, valid, bodyOk, readOnly) /\ Taken
  \/ \E r \in Slots, ok \in BOOLEAN, bodyOk \in BOOLEAN :
       WriteConnected(r, ok, bodyOk) /\ Resumed
  \/ \E r \in Slots, ok \in BOOLEAN : WriteExecuted(r, ok) /\ Resumed

StepQuery ==
  \/ \E r \in Slots, id \in ConnIds, q \in RouteQueries, valid \in BOOLEAN,
        readOnly \in Optional(BOOLEAN) :
       QueryPost(r, id, q, valid, readOnly) /\ Taken
  \/ \E r \in Slots, ok \in BOOLEAN : QueryConnected(r, ok) /\ Resumed
  \/ \E r \in Slots : QueryExecuted(r) /\ Resumed

\* every route of the server
Next ==
  StepConnect \/ StepRemove \/ StepSettings \/ StepTables \/ StepData \/ StepQuery

\* the routes that set, clear and enforce the read-only state
NextReadOnly == StepConnect \/ StepRemove \/ StepSettings \/ StepData \/ StepQuery

\* the routes that work on the registry, the pools and the metadata cache
NextRegistry == StepConnect \/ StepRemove \/ StepTables

Spec == Init /\ [][Next]_vars

SpecReadOnly == Init /\ [][NextReadOnly]_vars

SpecRegistry == Init /\ [][NextRegistry]_vars

NextClassifier == Classify

SpecClassifier == InitClassifier /\ [][NextClassifier]_vars

(***************************************************************************)
(* Properties of the read-only enforcement                                 *)
(***************************************************************************)
\* the handlers of write data requests and of queries that are past the
\* read-only check and still in flight
PastCheck(kinds) == {r \in Slots : reqs[r].kind \in kinds /\ reqs[r].pc # "idle"}

\* the query text is a write by either rule of the classifier
ClassifiedWrite(q) == isWriteQuery(q) \/ isMongoWriteQuery(q)

\* C1: a well-formed insert, update or delete data request that finds the
\* server-held flag of its connection id true is answered 403 and never
\* reaches insertRow / updateRow / deleteRow, whatever readOnly value the
\* client sent; a malformed one is answered 400 before the flag is read and
\* reaches no adapter either.
C1_ReadOnlyBlocksDataWrites ==
  /\ \A r \in PastCheck(WriteKinds) : reqs[r].roSeen = <<FALSE>>
  /\ resp.kind \in WriteKinds =>
       /\ resp.roSeen = <<TRUE>> => resp.status = 403 /\ ~resp.called
       /\ resp.roSeen = <<>> => resp.status = 400 /\ ~resp.called
       /\ resp.called => resp.roSeen = <<FALSE>>

\* C1 witness: an update answered 403 under a server flag that was set to
\* true, although the client sent readOnly = false
C1_Witness ==
  /\ resp.kind = "update" /\ resp.status = 403 /\ ~resp.called
  /\ resp.readOnly = <<FALSE>>
  /\ resp.id \in DOMAIN readOnlyState /\ readOnlyState[resp.id]

\* C2: under a true server-held flag a query that the classifier (keyword
\* rule or method-name rule) calls a write is answered 403 and never passed
\* to executeQuery; and 403 is answered only then, so the flag the caller
\* sends decides nothing.
C2_ReadOnlyBlocksWriteQueries ==
  /\ \A r \in PastCheck({"query"}) :
       ~(reqs[r].roSeen = <<TRUE>> /\ ClassifiedWrite(reqs[r].q))
  /\ resp.kind = "query" =>
       /\ resp.roSeen = <<TRUE>> /\ ClassifiedWrite(resp.q) =>
            resp.status = 403 /\ ~resp.called
       /\ resp.status = 403 => resp.roSeen = <<TRUE>> /\ ClassifiedWrite(resp.q)

\* C2 witness: a DELETE statement answered 403 under a server flag that was
\* set to true, although the caller sent readOnly = false
C2_Witness ==
  /\ resp.kind = "query" /\ resp.status = 403 /\ ~resp.called
  /\ resp.q = QDelete /\ resp.readOnly = <<FALSE>>
  /\ resp.id \in DOMAIN readOnlyState /\ readOnlyState[resp.id]

\* the rule that belongs to the backend kind of a connection
WriteByOwnRule(type, q) ==
  IF type = "mongodb" THEN isMongoWriteQuery(q) ELSE isWriteQuery(q)

\* C5: for a registered connection the query route answers 403 exactly when
\* the flag is true and the rule of the connection's own backend kind calls
\* the query a write: no query is a write because of the other kind's rule.
C5_ClassificationByBackendKind ==
  (resp.kind = "query" /\ resp.roSeen = <<TRUE>> /\ resp.id \in DOMAIN adapterCache) =>
     (resp.status = 403
        <=> WriteByOwnRule(adapters[adapterCache[resp.id]].type, resp.q))

\* C5 witness: a relational connection in read-only mode, and a SELECT whose
\* text contains ".drop(" answered 403
C5_Witness ==
  /\ resp.kind = "query" /\ resp.status = 403 /\ resp.q = QSelectDrop
  /\ resp.id \in DOMAIN adapterCache
  /\ adapters[adapterCache[resp.id]].type = "postgresql"
  /\ ~isWriteQuery(resp.q)

\* C6 as stated: the state of an id reads true only when the caller set it
\* to true, so a handler that read true (and answered 403) did so for an id
\* whose state is held and true, never for a never-set or cleared id.
C6_FalseUnlessSetTrue ==
  (resp.kind \in WriteKinds \cup {"query"} /\ resp.status = 403) =>
     (resp.id \in DOMAIN readOnlyState /\ readOnlyState[resp.id])

\* C6 amended: a connect that gives no readOnly value leaves the state of
\* its id false; the disconnect route leaves its id without a state; a data
\* write handler (which answers 403 or 404 in the step in which it reads the
\* state) reads an id that holds a state as that state, and an id that holds
\* none (never set, or cleared) as true, and answers 403.
C6_DefaultsOfReadOnlyState ==
  /\ (resp.kind = "connect" /\ resp.status = 200 /\ resp.adapter # 0
        /\ resp.readOnly = <<>>) =>
       /\ resp.id \in DOMAIN readOnlyState
       /\ ~isReadOnlyMode(readOnlyState, resp.id)
  /\ (resp.kind = "remove" /\ resp.status = 200) => resp.id \notin DOMAIN readOnlyState
  /\ (resp.kind \in WriteKinds /\ resp.status \in {403, 404}) =>
       /\ resp.id \in DOMAIN readOnlyState => resp.roSeen = <<readOnlyState[resp.id]>>
       /\ resp.id \notin DOMAIN readOnlyState =>
            resp.roSeen = <<TRUE>> /\ resp.status = 403

\* C6 witness: the disconnect route has removed a registered connection and
\* cleared its state, and the id reads as read-only
C6_Witness ==
  /\ resp.kind = "remove" /\ resp.status = 200 /\ resp.log = removeAdapterSteps
  /\ resp.id \notin DOMAIN readOnlyState
  /\ isReadOnlyMode(readOnlyState, resp.id)

(***************************************************************************)
(* Properties of the registry, the pools and the metadata cache            *)
(***************************************************************************)
\* the connect handler in slot r has just run getOrCreateAdapter for an id
\* that had an adapter
RegisteredAgain(r) ==
  /\ reqs[r].kind = "connect" /\ reqs[r].pc = "test"
  /\ reqs'[r].pc = "conn"
  /\ reqs[r].id \in DOMAIN adapterCache

\* what createAdapter made of an adapter: its backend kind and connection string
Made(ads) == [a \in DOMAIN ads |-> <<ads[a].type, ads[a].cs>>]

\* C7: getOrCreateAdapter for an id that has an adapter returns that adapter
\* and leaves the registry and the adapter as they were made, whatever
\* backend kind and connection string it is given; every id of the registry
\* maps to one adapter.
C7_GetOrCreate ==
  [][/\ \A r \in Slots : RegisteredAgain(r) =>
          /\ reqs'[r].adapter = adapterCache[reqs[r].id]
          /\ adapterCache' = adapterCache
          /\ Made(adapters') = Made(adapters)
     /\ \A id \in DOMAIN adapterCache' : adapterCache'[id] \in DOMAIN adapters']_vars

\* C7 witness: a connect request was given another backend kind and another
\* connection string than its id is registered with, and holds the
\* registered adapter
C7_Witness ==
  \E r \in Slots :
    /\ reqs[r].kind = "connect" /\ reqs[r].pc = "conn" /\ reqs[r].prev # 0
    /\ reqs[r].adapter = reqs[r].prev
    /\ adapterCache[reqs[r].id] = reqs[r].prev
    /\ adapters[reqs[r].prev].type # reqs[r].type
    /\ adapters[reqs[r].prev].cs # reqs[r].cs

\* C8: a connection id that is not registered (never was, or its removal
\* has completed) has no entry in the metadata cache.
C8_NoEntryAfterRemoval ==
  \A key \in DOMAIN schemaCache : key[1] \in DOMAIN adapterCache

\* C8 witness: the table list of a removed connection is in the cache, put
\* there by a request that was awaiting getTables() while the removal ran
C8_Witness ==
  /\ resp.kind = "tables" /\ resp.status = 200 /\ resp.adapter # 0
  /\ resp.id \notin DOMAIN adapterCache
  /\ cacheKeyTables(resp.id) \in DOMAIN schemaCache
  /\ schemaCache[cacheKeyTables(resp.id)].data = resp.adapter

C10_OneOpenPoolPerAdapter ==
  \A p \in DOMAIN pools : pools[p].open => adapters[pools[p].owner].pool = p

\* C10 witness: the connect route ran connect() a second time on the adapter
\* of a registered id; the adapter's first pool is open and is not its current one
C10_Witness ==
  \E p \in DOMAIN pools :
    /\ pools[p].open
    /\ adapters[pools[p].owner].connected
    /\ adapters[pools[p].owner].pool \notin {0, p}
    /\ resp.kind = "connect" /\ resp.status = 200 /\ resp.prev = pools[p].owner

(***************************************************************************)
(* Properties of the write classifier                                      *)
(***************************************************************************)
\* How a SQL backend reads the head of a statement: whitespace, "--" line
\* comments and "/* */" block comments are skipped; block comments nest in
\* PostgreSQL and do not in ClickHouse.
\* The position after the block comment whose body starts at i, 0 when the
\* comment is not closed.
RECURSIVE BlockCommentEnd(_, _, _, _)
BlockCommentEnd(s, i, depth, nested) ==
  IF i + 1 > Len(s) THEN 0
  ELSE IF s[i] = "*" /\ s[i + 1] = "/"
    THEN IF depth = 1 THEN i + 2 ELSE BlockCommentEnd(s, i + 2, depth - 1, nested)
  ELSE IF nested /\ s[i] = "/" /\ s[i + 1] = "*"
    THEN BlockCommentEnd(s, i + 2, depth + 1, nested)
  ELSE BlockCommentEnd(s, i + 1, depth, nested)

\* the text from its first line end on
RECURSIVE FromLineEnd(_)
FromLineEnd(s) ==
  IF s = <<>> \/ Head(s) = "\n" THEN s ELSE FromLineEnd(Tail(s))

\* the text from its first token on, <<>> when it holds none
RECURSIVE FromFirstToken(_, _)
FromFirstToken(s, nested) ==
  IF s = <<>> THEN <<>>
  ELSE IF IsSpace(Head(s)) THEN FromFirstToken(Tail(s), nested)
  ELSE IF Len(s) >= 2 /\ s[1] = "-" /\ s[2] = "-"
    THEN FromFirstToken(FromLineEnd(s), nested)
  ELSE IF Len(s) >= 2 /\ s[1] = "/" /\ s[2] = "*"
    THEN LET e == BlockCommentEnd(s, 3, 1, nested)
         IN IF e = 0 THEN <<>> ELSE FromFirstToken(SubSeq(s, e, Len(s)), nested)
  ELSE s

\* the backend reads q as a statement that starts with a mutating keyword,
\* and what follows the keyword is the end of the text, whitespace or a comment
ReadsAsWrite(q, nested) ==
  LET t == FromFirstToken(q, nested) IN
  /\ t # <<>>
  /\ UpperSym(t[1]) \in writeKeywords
  /\ \/ Len(t) = 1
     \/ IsSpace(t[2])
     \/ Len(t) >= 3 /\ t[2] = "-" /\ t[3] = "-"
     \/ Len(t) >= 3 /\ t[2] = "/" /\ t[3] = "*" /\ BlockCommentEnd(t, 4, 1, nested) # 0

\* C3: however line and block comments are placed before the leading
\* mutating keyword or directly after it, a query that the backend reads as
\* starting with a mutating keyword is classified as a write.
C3_CommentsHideNoWrite ==
  (cpc = "done" /\ \E nested \in BOOLEAN : ReadsAsWrite(query, nested)) => sqlWrite

\* C3 witness: DELETE, an empty block comment in place of the blank, and the
\* rest of the statement: the backend reads a DELETE, the classifier does not
C3_Witness ==
  /\ cpc = "done"
  /\ query = <<"DELETE", "/", "*", "*", "/", "SELECT">>
  /\ ReadsAsWrite(query, TRUE) /\ ReadsAsWrite(query, FALSE)
  /\ stripped(query) = <<"DELETE", "SELECT">>
  /\ ~sqlWrite

\* the tokens of a normalised text: its symbols other than whitespace
Tokens(s) == SelectSeq(s, LAMBDA c : ~IsSpace(c))

\* a mutating keyword is the very first token or the token after a ")"
KeywordFirstOrAfterParen(s) ==
  LET t == Tokens(s) IN
  \E i \in 1..Len(t) : t[i] \in writeKeywords /\ (i = 1 \/ t[i - 1] = ")")

\* C4: the classifier returns "write" exactly when, in the text without
\* comments, with collapsed whitespace and in upper case, a mutating keyword
\* is the very first token or immediately follows a closing parenthesis.
C4_WriteIffLeadingKeyword ==
  cpc = "done" => (sqlWrite <=> KeywordFirstOrAfterParen(stripped(query)))

\* C4 witness: VACUUM closed by a semicolon: the keyword is the first token,
\* and the classifier does not return "write"
C4_Witness ==
  /\ cpc = "done"
  /\ query = <<"vacuum", ";">>
  /\ KeywordFirstOrAfterParen(stripped(query))
  /\ ~sqlWrite

(***************************************************************************)
(* Properties of disconnect                                                *)
(***************************************************************************)
\* C11: the close of a pool (pool.end(), client.close()) is invoked at most
\* once, also when two disconnect calls on one adapter overlap.
C11_PoolClosedOnce ==
  \A p \in DOMAIN pools : pools[p].ends <= 1

\* C11 witness: two removal requests for one connection id are both awaiting
\* the close of the same pool, which has been invoked twice
C11_Witness ==
  \E r1, r2 \in Slots :
    /\ r1 # r2
    /\ reqs[r1].kind = "remove" /\ reqs[r1].pc = "disc"
    /\ reqs[r2].kind = "remove" /\ reqs[r2].pc = "disc"
    /\ reqs[r1].id = reqs[r2].id
    /\ reqs[r1].pool = reqs[r2].pool
    /\ pools[reqs[r1].pool].ends = 2

(***************************************************************************)
(* Adapter run: one adapter object with connect(), disconnect() and        *)
(* testConnection() called on it, each call running from await to await;   *)
(* calls counts the calls made so far                                      *)
(***************************************************************************)
\* the other runs stay as they are
UnitOnly ==
  UNCHANGED <<clsVars, srvVars, mcache, ident, oper, page, paging,
              edit, errs, stats, sample, client>>

\* no testConnection() call in flight and none returned yet
NoTest == [pc |-> "idle", pool |-> 0, result |-> ""]

\* return { success: ..., message: ... }
TestReturns(t, success) ==
  [t EXCEPT !.pc = "done", !.result = IF success THEN "success" ELSE "failure"]

\* testConnection(): the throwaway pool/client is created inside try and its
\* connect is awaited; a constructor that throws is caught like the rest
TestConnectionBegin(created) ==
  /\ unit # <<>> /\ unit.test.pc \in {"idle", "done"}
  /\ unit.calls < MaxUnitCalls
  /\ unit' =
       IF created
         THEN [unit EXCEPT !.pools = Append(@, [owner |-> 0, open |-> TRUE, ends |-> 0]),
                           !.test = [pc |-> "connect", pool |-> Len(unit.pools) + 1,
                                     result |-> ""],
                           !.calls = @ + 1]
         ELSE [unit EXCEPT !.test = TestReturns(NoTest, FALSE), !.calls = @ + 1]
  /\ UnitOnly

\* await testPool.connect() / testClient.ping() / testClient.connect()
\* returned or threw; catch returns { success: false }
TestConnectionConnected(ok) ==
  /\ unit # <<>> /\ unit.test.pc = "connect"
  /\ unit' = IF ok THEN [unit EXCEPT !.test.pc = "probe"]
             ELSE [unit EXCEPT !.test = TestReturns(@, FALSE)]
  /\ UnitOnly

\* the probe (SELECT version(), serverStatus()) returned or threw; after a
\* probe that returned, testPool.end() / testClient.close() is called
TestConnectionProbed(ok) ==
  /\ unit # <<>> /\ unit.test.pc = "probe"
  /\ unit' = IF ok THEN [unit EXCEPT !.test.pc = "close",
                                     !.pools = disconnectBeginPools(@, unit.test.pool)]
             ELSE [unit EXCEPT !.test = TestReturns(@, FALSE)]
  /\ UnitOnly

\* await testPool.end() returned or threw
TestConnectionClosed(ok) ==
  /\ unit # <<>> /\ unit.test.pc = "close"
  /\ unit' = [unit EXCEPT !.test = TestReturns(@, ok)]
  /\ UnitOnly

\* connect() up to its await
AdapterConnect ==
  /\ unit # <<>> /\ unit.conn = "idle"
  /\ unit.calls < MaxUnitCalls
  /\ unit' = [unit EXCEPT !.adapters = connectBeginAdapters(@, 1, unit.pools),
                          !.pools = connectBeginPools(@, 1),
                          !.conn = "await", !.calls = @ + 1]
  /\ UnitOnly

\* connect() after its await
AdapterConnected(ok) ==
  /\ unit # <<>> /\ unit.conn = "await"
  /\ unit' = [unit EXCEPT !.adapters = connectEnd(@, 1, ok), !.conn = "idle"]
  /\ UnitOnly

\* disconnect() up to its await; without a pool it does nothing
AdapterDisconnect ==
  /\ unit # <<>> /\ unit.disc = "idle"
  /\ unit.adapters[1].pool # 0
  /\ unit.calls < MaxUnitCalls
  /\ unit' = [unit EXCEPT !.pools = disconnectBeginPools(@, unit.adapters[1].pool),
                          !.disc = "await", !.calls = @ + 1]
  /\ UnitOnly

\* disconnect() after its await; a close that threw leaves the fields
AdapterDisconnected(ok) ==
  /\ unit # <<>> /\ unit.disc = "await"
  /\ unit' = [unit EXCEPT !.adapters = IF ok THEN disconnectEnd(@, 1) ELSE @,
                          !.disc = "idle"]
  /\ UnitOnly

\* a new adapter of each backend kind
InitUnit ==
  /\ InitServer /\ InitNoQuery
  /\ unit \in {[adapters |-> <<createAdapter(type, "cs1")>>, pools |-> <<>>,
                test |-> NoTest, conn |-> "idle", disc |-> "idle", calls |-> 0] :
               type \in {"postgresql", "mongodb", "clickhouse"}}
  /\ NoCache /\ NoIdent /\ NoOper /\ NoPage /\ NoRest

NextUnit ==
  \/ \E created \in BOOLEAN : TestConnectionBegin(created)
  \/ \E ok \in BOOLEAN : TestConnectionConnected(ok)
  \/ \E ok \in BOOLEAN : TestConnectionProbed(ok)
  \/ \E ok \in BOOLEAN : TestConnectionClosed(ok)
  \/ AdapterConnect
  \/ \E ok \in BOOLEAN : AdapterConnected(ok)
  \/ AdapterDisconnect
  \/ \E ok \in BOOLEAN : AdapterDisconnected(ok)

SpecUnit == InitUnit /\ [][NextUnit]_vars

\* C12: when testConnection() has returned, it returned a {success, message}
\* value and the throwaway pool/client it created has been closed, whether
\* the connection attempt failed, the probe failed, or both succeeded.
C12_TestClosesThrowaway ==
  (unit # <<>> /\ unit.test.pc = "done") =>
     /\ unit.test.result \in {"success", "failure"}
     /\ unit.test.pool # 0 => ~unit.pools[unit.test.pool].open

\* C12 witness: testConnection() has returned success: false and the pool it
\* created is still open
C12_Witness ==
  /\ unit # <<>> /\ unit.test.pc = "done" /\ unit.test.result = "failure"
  /\ unit.test.pool # 0
  /\ unit.pools[unit.test.pool].open /\ unit.pools[unit.test.pool].ends = 0

(***************************************************************************)
(* Cache run: one MemoryCache with its entries' expiry instants, the clock *)
(* (Date.now(), in units of the shortest TTL) and the periodic sweep       *)
(***************************************************************************)
CacheOnly ==
  UNCHANGED <<clsVars, srvVars, unit, ident, oper, page, paging,
              edit, errs, stats, sample, client>>

CacheKeys == {cacheKeyTables(id) : id \in ConnIds}
CacheData == {"a", "b"}
Ttls == 1..MaxTtl

\* a get() that returns whatever the map holds
getNoExpiry(c, key, now) ==
  IF key \notin DOMAIN c THEN [cache |-> c, result |-> "undefined"]
  ELSE [cache |-> c, result |-> c[key].data]

\* get(key): the cache it leaves and the value it returns
get(c, key, now) ==
  IF key \notin DOMAIN c THEN [cache |-> c, result |-> "undefined"]
  ELSE IF now > c[key].expiresAt
    THEN [cache |-> [k \in DOMAIN c \ {key} |-> c[k]], result |-> "undefined"]
  ELSE [cache |-> c, result |-> c[key].data]

\* set(key, data, ttlMs)
set(c, key, data, ttlMs, now) ==
  [k \in DOMAIN c \cup {key} |->
     IF k = key THEN [data |-> data, expiresAt |-> now + ttlMs] ELSE c[k]]

\* a sweep that deletes nothing
cleanupNothing(c, now) == c

\* cleanup(): every entry with now > expiresAt is deleted
cleanup(c, now) ==
  [k \in {k2 \in DOMAIN c : ~(now > c[k2].expiresAt)} |-> c[k]]

\* what the last step was, for the steps that call the cache, with the keys
\* whose entries the call deleted
NoCall == [op |-> "none", key |-> <<>>, result |-> "undefined", evicted |-> {}]

CacheGet(key) ==
  /\ mcache # <<>>
  /\ LET g == get(mcache.cache, key, mcache.now) IN
     mcache' = [mcache EXCEPT !.cache = g.cache,
                              !.last = [op |-> "get", key |-> key, result |-> g.result,
                                        evicted |-> DOMAIN mcache.cache \ DOMAIN g.cache]]
  /\ CacheOnly

CacheSet(key, data, ttlMs) ==
  /\ mcache # <<>>
  /\ mcache' = [mcache EXCEPT !.cache = set(@, key, data, ttlMs, mcache.now),
                              !.last = [op |-> "set", key |-> key, result |-> data,
                                        evicted |-> {}]]
  /\ CacheOnly

\* the setInterval callback of the constructor
Cleanup ==
  /\ mcache # <<>>
  /\ mcache' = [mcache EXCEPT
       !.cache = cleanup(@, mcache.now),
       !.last = [NoCall EXCEPT !.op = "cleanup",
                               !.evicted = DOMAIN mcache.cache
                                             \ DOMAIN cleanup(mcache.cache, mcache.now)]]
  /\ CacheOnly

\* time passes
Tick ==
  /\ mcache # <<>> /\ mcache.now < MaxNow
  /\ mcache' = [mcache EXCEPT !.now = @ + 1, !.last = NoCall]
  /\ CacheOnly

\* new MemoryCache()
InitCache ==
  /\ InitServer /\ InitNoQuery
  /\ mcache = [cache |-> <<>>, now |-> 0, last |-> NoCall]
  /\ NoUnit /\ NoIdent /\ NoOper /\ NoPage /\ NoRest

NextCache ==
  \/ \E key \in CacheKeys : CacheGet(key)
  \/ \E key \in CacheKeys, data \in CacheData, ttlMs \in Ttls : CacheSet(key, data, ttlMs)
  \/ Cleanup
  \/ Tick

SpecCache == InitCache /\ [][NextCache]_vars

\* the sweep keeps running: the interval timer fires again and again
SpecCacheSweep == InitCache /\ [][NextCache]_vars /\ WF_vars(Cleanup)

\* the entry of key has expired
Expired(key) ==
  /\ mcache # <<>>
  /\ key \in DOMAIN mcache.cache
  /\ mcache.now > mcache.cache[key].expiresAt

\* C13: get(key) returns the stored value when the key has an entry and the
\* current time has not passed its expiry, and changes nothing then;
\* otherwise it returns undefined and the key has no entry afterwards.
\* set(key, v, ttl) leaves the entry {v, now + ttl} and no other change.
C13_GetHonoursExpiry ==
  [][/\ mcache'.last.op = "get" =>
          LET k == mcache'.last.key
              c == mcache.cache
          IN IF k \in DOMAIN c /\ mcache.now <= c[k].expiresAt
               THEN mcache'.last.result = c[k].data /\ mcache'.cache = c
               ELSE /\ mcache'.last.result = "undefined"
                    /\ k \notin DOMAIN mcache'.cache
                    /\ \A k2 \in DOMAIN c \ {k} :
                         k2 \in DOMAIN mcache'.cache /\ mcache'.cache[k2] = c[k2]
     /\ mcache'.last.op = "set" =>
          LET k == mcache'.last.key IN
          /\ DOMAIN mcache'.cache = DOMAIN mcache.cache \cup {k}
          /\ mcache'.cache[k].data = mcache'.last.result
          /\ \E ttlMs \in Ttls : mcache'.cache[k].expiresAt = mcache.now + ttlMs
          /\ \A k2 \in DOMAIN mcache.cache \ {k} : mcache'.cache[k2] = mcache.cache[k2]]_vars

\* C13 witness: a read of an entry whose expiry has passed returned undefined
\* and removed it, while the other key's entry is still held
C13_Witness ==
  /\ mcache # <<>> /\ mcache.last.op = "get" /\ mcache.last.result = "undefined"
  /\ mcache.last.evicted = {mcache.last.key}
  /\ DOMAIN mcache.cache # {}

\* C14: with the sweep running, an entry that has expired is eventually
\* gone; and a sweep deletes exactly the entries whose expiry has passed and
\* leaves the others as they are.
C14_SweepEvictsExpired ==
  /\ \A key \in CacheKeys : Expired(key) ~> ~Expired(key)
  /\ [][mcache'.last.op = "cleanup" =>
          /\ DOMAIN mcache'.cache =
               {k \in DOMAIN mcache.cache : mcache.now <= mcache.cache[k].expiresAt}
          /\ \A k \in DOMAIN mcache'.cache : mcache'.cache[k] = mcache.cache[k]]_vars

\* C14 witness: a sweep has just deleted an expired entry and kept an
\* unexpired one
C14_Witness ==
  /\ mcache # <<>> /\ mcache.last.op = "cleanup"
  /\ mcache.last.evicted # {}
  /\ DOMAIN mcache.cache # {}

\* ---------------------------------------------------------------------------
\* Identifier validation and quoting: validation.ts and the private copies of
\* the relational and the columnar adapter. A name is a sequence of characters,
\* one symbol per character class the expressions tell apart; "backtick" is the
\* one character U+0060.
\* ---------------------------------------------------------------------------

MaxIdentLen == 4

IdentOnly ==
  UNCHANGED <<clsVars, srvVars, unit, mcache, oper, page, paging,
              edit, errs, stats, sample, client>>

IdentAlphabet == {"a", "_", "1", ".", "\"", "'", "backtick", ";", " ", "\n"}
IdentNames == UNION {[1..n -> IdentAlphabet] : n \in 0..MaxIdentLen}

\* [a-zA-Z_][a-zA-Z0-9_]* matches s[i..j] whole
nameMatches(s, i, j) ==
  /\ i <= j
  /\ s[i] \in {"a", "_"}
  /\ \A k \in (i + 1)..j : s[k] \in {"a", "_", "1"}

\* a test where $ also matches before a final line terminator
identifierRegexDollarBeforeNewline(s) ==
  LET whole(t) ==
        \/ nameMatches(t, 1, Len(t))
        \/ \E d \in 2..(Len(t) - 1) :
             t[d] = "." /\ nameMatches(t, 1, d - 1) /\ nameMatches(t, d + 1, Len(t))
  IN  \/ whole(s)
      \/ Len(s) > 0 /\ s[Len(s)] = "\n" /\ whole(SubSeq(s, 1, Len(s) - 1))

\* identifierRegex.test(s): ^ and $ without the m flag are the two ends of s
identifierRegex(s) ==
  \/ nameMatches(s, 1, Len(s))
  \/ \E d \in 2..(Len(s) - 1) :
       s[d] = "." /\ nameMatches(s, 1, d - 1) /\ nameMatches(s, d + 1, Len(s))

\* columnNameRegex.test(s)
columnNameRegex(s) == nameMatches(s, 1, Len(s))

\* name.split(".")
RECURSIVE split(_)
split(s) ==
  IF \A i \in 1..Len(s) : s[i] # "."
    THEN <<s>>
    ELSE LET d == CHOOSE i \in 1..Len(s) :
                    s[i] = "." /\ \A k \in 1..(i - 1) : s[k] # "."
         IN  <<SubSeq(s, 1, d - 1)>> \o split(SubSeq(s, d + 1, Len(s)))

\* parts.join(".")
RECURSIVE join(_)
join(parts) ==
  IF Len(parts) = 0 THEN <<>>
  ELSE IF Len(parts) = 1 THEN parts[1]
  ELSE parts[1] \o <<".">> \o join(Tail(parts))

\* a call's outcome: it threw, or it returned out
Threw == [threw |-> TRUE, out |-> <<>>]
Returned(out) == [threw |-> FALSE, out |-> out]

validateIdentifier(name) ==
  IF ~identifierRegex(name) THEN Threw ELSE Returned(<<>>)

validateColumnName(name) ==
  IF ~columnNameRegex(name) THEN Threw ELSE Returned(<<>>)

\* quoting of the whole name as one part
quoteIdentifierWhole(q, name) ==
  IF validateIdentifier(name).threw THEN Threw
  ELSE Returned(<<q>> \o name \o <<q>>)

\* quotePostgresIdentifier and PostgresAdapter.quoteIdentifier with q the double
\* quote, ClickHouseAdapter.quoteIdentifier with q the backtick
quoteIdentifier(q, name) ==
  IF validateIdentifier(name).threw THEN Threw
  ELSE LET parts == split(name)
       IN  Returned(join([i \in 1..Len(parts) |-> <<q>> \o parts[i] \o <<q>>]))

IdentCall(op, q, outcome) ==
  /\ ident.pc = "start"
  /\ ident' = [ident EXCEPT !.pc = "done", !.op = op, !.q = q,
                            !.threw = outcome.threw, !.out = outcome.out]
  /\ IdentOnly

ValidateIdentifier == IdentCall("validateIdentifier", "", validateIdentifier(ident.name))
ValidateColumnName == IdentCall("validateColumnName", "", validateColumnName(ident.name))
QuotePostgresIdentifier ==
  IdentCall("quotePostgresIdentifier", "\"", quoteIdentifier("\"", ident.name))
PostgresQuoteIdentifier ==
  IdentCall("PostgresAdapter.quoteIdentifier", "\"", quoteIdentifier("\"", ident.name))
ClickHouseQuoteIdentifier ==
  IdentCall("ClickHouseAdapter.quoteIdentifier", "backtick", quoteIdentifier("backtick", ident.name))

InitIdent ==
  /\ InitServer /\ InitNoQuery
  /\ \E name \in IdentNames :
       ident = [name |-> name, pc |-> "start", op |-> "", q |-> "",
                threw |-> FALSE, out |-> <<>>]
  /\ NoUnit /\ NoCache /\ NoOper /\ NoPage /\ NoRest

NextIdent ==
  \/ ValidateIdentifier
  \/ ValidateColumnName
  \/ QuotePostgresIdentifier
  \/ PostgresQuoteIdentifier
  \/ ClickHouseQuoteIdentifier

SpecIdent == InitIdent /\ [][NextIdent]_vars

\* a segment of the identifier grammar: a letter or underscore, then letters,
\* digits and underscores
IsSegment(w) ==
  /\ Len(w) >= 1
  /\ w[1] \in {"a", "_"}
  /\ \A k \in 2..Len(w) : w[k] \in {"a", "_", "1"}

\* the one or two segments of a name of the grammar, none for any other name
SegmentsOf(name) ==
  {segs \in {<<name>>}
            \cup {<<SubSeq(name, 1, d - 1), SubSeq(name, d + 1, Len(name))>> :
                    d \in {i \in 1..Len(name) : name[i] = "."}} :
     \A k \in 1..Len(segs) : IsSegment(segs[k])}

\* text without its quote characters
RECURSIVE StripQuotes(_, _)
StripQuotes(q, text) ==
  IF text = <<>> THEN <<>>
  ELSE IF Head(text) = q THEN StripQuotes(q, Tail(text))
  ELSE <<Head(text)>> \o StripQuotes(q, Tail(text))

QuoteOps ==
  {"quotePostgresIdentifier", "PostgresAdapter.quoteIdentifier",
   "ClickHouseAdapter.quoteIdentifier"}

\* C15: for a name of the identifier grammar validation succeeds, quoting puts
\* each dot-separated segment between its own pair of quote characters (double
\* quotes for the relational backend, backticks for the columnar one), and the
\* quoted text without the quote characters is the name again.
C15_QuoteRoundTrip ==
  (ident # <<>> /\ ident.pc = "done" /\ SegmentsOf(ident.name) # {}
     /\ ident.op \in QuoteOps \cup {"validateIdentifier"})
    => /\ ~ident.threw
       /\ ident.op \in QuoteOps =>
            /\ ident.q = (IF ident.op = "ClickHouseAdapter.quoteIdentifier"
                            THEN "backtick" ELSE "\"")
            /\ StripQuotes(ident.q, ident.out) = ident.name
            /\ \A segs \in SegmentsOf(ident.name) :
                 ident.out =
                   IF Len(segs) = 1
                     THEN <<ident.q>> \o segs[1] \o <<ident.q>>
                     ELSE <<ident.q>> \o segs[1] \o <<ident.q, ".", ident.q>>
                            \o segs[2] \o <<ident.q>>

C15_Witness ==
  /\ ident # <<>> /\ ident.pc = "done"
  /\ ident.op = "ClickHouseAdapter.quoteIdentifier"
  /\ \E segs \in SegmentsOf(ident.name) : Len(segs) = 2
  /\ ~ident.threw /\ Len(ident.out) = Len(ident.name) + 4

\* C16: a name with a quote character, a semicolon or whitespace in it, a
\* final newline included, fails identifier validation and column-name
\* validation, and nothing is quoted from it.
C16_UnsafeNamesRejected ==
  (ident # <<>> /\ ident.pc = "done"
     /\ \E i \in 1..Len(ident.name) :
          ident.name[i] \in {"\"", "'", "backtick", ";", " ", "\n"})
    => ident.threw /\ ident.out = <<>>

C16_Witness ==
  /\ ident # <<>> /\ ident.pc = "done"
  /\ Len(ident.name) >= 2
  /\ ident.name[Len(ident.name)] = "\n"
  /\ identifierRegex(SubSeq(ident.name, 1, Len(ident.name) - 1))
  /\ ident.op = "PostgresAdapter.quoteIdentifier"
  /\ ident.threw

\* ---------------------------------------------------------------------------
\* Row operations of the relational and the columnar adapter: the statements
\* they hand to the driver. Statement text is a sequence of characters and
\* fixed pieces of text; a data value is one symbol. A run makes one call and
\* then the same call again with other values and another page.
\* ---------------------------------------------------------------------------

MaxCols == 2
MaxPage == 2
MaxPageSize == 2

OperOnly ==
  UNCHANGED <<clsVars, srvVars, unit, mcache, ident, page, paging,
              edit, errs, stats, sample, client>>

Tables == {<<"a", ".", "_">>, <<"a", ";">>}
Columns == {<<"a">>, <<"_">>, <<"a", "'">>}
Values == {"v1", "v2"}
SqlTypes == {"postgresql", "clickhouse"}
RowOps == {"getRows", "insertRow", "updateRow", "deleteRow"}

\* Record<string, unknown> in key order: no key twice
Records ==
  {r \in UNION {[1..n -> [col : Columns, val : Values]] : n \in 0..MaxCols} :
     \A i, j \in DOMAIN r : r[i].col = r[j].col => i = j}

\* a bound parameter: a data value or a number
Val(v) == [kind |-> "value", v |-> v, n |-> 0]
Num(n) == [kind |-> "number", v |-> "", n |-> n]

\* `$${paramIndex}` and `{${paramName}:String}`
Dollar(i) == "$" \o ToString(i)
Curly(paramName, type) == "{" \o paramName \o ":" \o type \o "}"

\* parts.join(sep)
RECURSIVE joinWith(_, _)
joinWith(parts, sep) ==
  IF Len(parts) = 0 THEN <<>>
  ELSE IF Len(parts) = 1 THEN parts[1]
  ELSE parts[1] \o <<sep>> \o joinWith(Tail(parts), sep)

\* keys.forEach((col) => this.validateColumnName(col)): it throws at a key
\* that fails
anyColumnNameThrows(r) == \E i \in DOMAIN r : validateColumnName(r[i].col).threw

\* Object.values(r) as bound parameters
valuesOf(r) == [i \in DOMAIN r |-> Val(r[i].val)]

\* keys.map((col, i) => `"${col}" = $${first + i}`)
pgAssignments(r, first) ==
  [i \in DOMAIN r |-> <<"\"">> \o r[i].col \o <<"\"", " = ", Dollar(first + i - 1)>>]

\* the statement a native call carries
Statement(kind, text, params) == [kind |-> kind, text |-> text, params |-> params]

\* PostgresAdapter.getRows up to its first await
pgWhereClause(filters) ==
  IF Len(filters) > 0
    THEN <<"WHERE ">> \o joinWith(pgAssignments(filters, 1), " AND ")
    ELSE <<>>

pgOrderClause(sortBy, sortOrder) ==
  IF sortBy # <<>>
    THEN <<"ORDER BY ", "\"">> \o sortBy
           \o <<"\"", " ", IF sortOrder = "desc" THEN "DESC" ELSE "ASC">>
    ELSE <<>>

pgGetRowsThrows(a) ==
  \/ quoteIdentifier("\"", a.table).threw
  \/ anyColumnNameThrows(a.filters)
  \/ a.sortBy # <<>> /\ validateColumnName(a.sortBy).threw

pgCountQuery(a) ==
  Statement("count",
            <<"SELECT COUNT(*) as total FROM ">> \o quoteIdentifier("\"", a.table).out
              \o <<" ">> \o pgWhereClause(a.filters),
            valuesOf(a.filters))

\* the data statement with the filter values in the text
pgDataQueryInlineValues(a) ==
  Statement("data",
            <<"SELECT * FROM ">> \o quoteIdentifier("\"", a.table).out
              \o <<" ">>
              \o (IF Len(a.filters) > 0
                    THEN <<"WHERE ">>
                           \o joinWith([i \in DOMAIN a.filters |->
                                          <<"\"">> \o a.filters[i].col
                                            \o <<"\"", " = ", a.filters[i].val>>],
                                       " AND ")
                    ELSE <<>>)
              \o <<" ">> \o pgOrderClause(a.sortBy, a.sortOrder)
              \o <<" ", "LIMIT ", Dollar(1), " OFFSET ", Dollar(2)>>,
            <<Num(a.pageSize), Num((a.page - 1) * a.pageSize)>>)

pgDataQuery(a) ==
  Statement("data",
            <<"SELECT * FROM ">> \o quoteIdentifier("\"", a.table).out
              \o <<" ">> \o pgWhereClause(a.filters)
              \o <<" ">> \o pgOrderClause(a.sortBy, a.sortOrder)
              \o <<" ", "LIMIT ", Dollar(Len(a.filters) + 1),
                   " OFFSET ", Dollar(Len(a.filters) + 2)>>,
            valuesOf(a.filters) \o <<Num(a.pageSize), Num((a.page - 1) * a.pageSize)>>)

pgInsertThrows(a) ==
  quoteIdentifier("\"", a.table).threw \/ anyColumnNameThrows(a.data)

pgInsertQuery(a) ==
  Statement("insert",
            <<"INSERT INTO ">> \o quoteIdentifier("\"", a.table).out \o <<" (">>
              \o joinWith([i \in DOMAIN a.data |-> <<"\"">> \o a.data[i].col \o <<"\"">>],
                          ", ")
              \o <<") VALUES (">>
              \o joinWith([i \in DOMAIN a.data |-> <<Dollar(i)>>], ", ")
              \o <<") RETURNING *">>,
            valuesOf(a.data))

pgUpdateThrows(a) ==
  \/ quoteIdentifier("\"", a.table).threw
  \/ anyColumnNameThrows(a.data)
  \/ anyColumnNameThrows(a.primaryKey)

pgUpdateQuery(a) ==
  Statement("update",
            <<"UPDATE ">> \o quoteIdentifier("\"", a.table).out
              \o <<" SET ">> \o joinWith(pgAssignments(a.data, 1), ", ")
              \o <<" WHERE ">>
              \o joinWith(pgAssignments(a.primaryKey, Len(a.data) + 1), " AND ")
              \o <<" RETURNING *">>,
            valuesOf(a.data) \o valuesOf(a.primaryKey))

pgDeleteThrows(a) ==
  quoteIdentifier("\"", a.table).threw \/ anyColumnNameThrows(a.primaryKey)

pgDeleteQuery(a) ==
  Statement("delete",
            <<"DELETE FROM ">> \o quoteIdentifier("\"", a.table).out
              \o <<" WHERE ">> \o joinWith(pgAssignments(a.primaryKey, 1), " AND "),
            valuesOf(a.primaryKey))

\* ClickHouseAdapter.getRows
chFilterParams(filters) ==
  [name \in {"filter_" \o ToString(i - 1) : i \in DOMAIN filters} |->
     Val(filters[CHOOSE i \in DOMAIN filters : name = "filter_" \o ToString(i - 1)].val)]

chWhereClause(filters) ==
  IF Len(filters) > 0
    THEN <<"WHERE ">>
           \o joinWith([i \in DOMAIN filters |->
                          <<"backtick">> \o filters[i].col
                            \o <<"backtick", " = ",
                                 Curly("filter_" \o ToString(i - 1), "String")>>],
                       " AND ")
    ELSE <<>>

chOrderClause(sortBy, sortOrder) ==
  IF sortBy # <<>>
    THEN <<"ORDER BY ", "backtick">> \o sortBy
           \o <<"backtick", " ", IF sortOrder = "desc" THEN "DESC" ELSE "ASC">>
    ELSE <<>>

chGetRowsThrows(a) ==
  \/ validateIdentifier(a.table).threw
  \/ \E i \in DOMAIN a.filters : validateIdentifier(a.filters[i].col).threw

chCountQuery(a) ==
  Statement("count",
            <<"SELECT count() as total FROM ">> \o quoteIdentifier("backtick", a.table).out
              \o <<" ">> \o chWhereClause(a.filters),
            chFilterParams(a.filters))

chDataQuery(a) ==
  Statement("data",
            <<"SELECT * FROM ">> \o quoteIdentifier("backtick", a.table).out
              \o <<" ">> \o chWhereClause(a.filters)
              \o <<" ">> \o chOrderClause(a.sortBy, a.sortOrder)
              \o <<" ", "LIMIT ", Curly("limit", "UInt32"),
                   " OFFSET ", Curly("offset", "UInt32")>>,
            [name \in DOMAIN chFilterParams(a.filters) \cup {"limit", "offset"} |->
               IF name = "limit" THEN Num(a.pageSize)
               ELSE IF name = "offset" THEN Num((a.page - 1) * a.pageSize)
               ELSE chFilterParams(a.filters)[name]])

\* client.insert({table, values: [data], format}): the table name as given, the
\* record as the values
chInsert(a) == Statement("insert", a.table, a.data)

\* the call of this run
Call(type, op) ==
  /\ oper.pc = "start"
  /\ oper.args.type = type
  /\ oper.args.op = op

\* the call raises with nothing more issued
Raise == oper' = [oper EXCEPT !.pc = "done", !.threw = TRUE]

\* a native call goes out and the operation awaits it at pc
Issue(statement, pc) ==
  oper' = [oper EXCEPT !.pc = pc, !.issued = Append(@, statement)]

PostgresGetRows ==
  /\ Call("postgresql", "getRows")
  /\ IF pgGetRowsThrows(oper.args) THEN Raise
     ELSE Issue(pgCountQuery(oper.args), "count")
  /\ OperOnly

PostgresGetRowsCounted(ok) ==
  /\ oper.pc = "count" /\ oper.args.type = "postgresql"
  /\ IF ~ok THEN Raise ELSE Issue(pgDataQuery(oper.args), "native")
  /\ OperOnly

PostgresInsertRow ==
  /\ Call("postgresql", "insertRow")
  /\ IF pgInsertThrows(oper.args) THEN Raise
     ELSE Issue(pgInsertQuery(oper.args), "native")
  /\ OperOnly

PostgresUpdateRow ==
  /\ Call("postgresql", "updateRow")
  /\ IF pgUpdateThrows(oper.args) THEN Raise
     ELSE Issue(pgUpdateQuery(oper.args), "native")
  /\ OperOnly

PostgresDeleteRow ==
  /\ Call("postgresql", "deleteRow")
  /\ IF pgDeleteThrows(oper.args) THEN Raise
     ELSE Issue(pgDeleteQuery(oper.args), "native")
  /\ OperOnly

ClickHouseGetRows ==
  /\ Call("clickhouse", "getRows")
  /\ IF chGetRowsThrows(oper.args) THEN Raise
     ELSE Issue(chCountQuery(oper.args), "count")
  /\ OperOnly

\* the sort column is validated after the count has come back
ClickHouseGetRowsCounted(ok) ==
  /\ oper.pc = "count" /\ oper.args.type = "clickhouse"
  /\ IF ~ok \/ (oper.args.sortBy # <<>> /\ validateIdentifier(oper.args.sortBy).threw)
       THEN Raise
       ELSE Issue(chDataQuery(oper.args), "native")
  /\ OperOnly

ClickHouseInsertRow ==
  /\ Call("clickhouse", "insertRow")
  /\ IF validateIdentifier(oper.args.table).threw THEN Raise
     ELSE Issue(chInsert(oper.args), "native")
  /\ OperOnly

\* ClickHouseAdapter.updateRow and deleteRow throw at once
ClickHouseUpdateOrDeleteRow ==
  /\ oper.pc = "start" /\ oper.args.type = "clickhouse"
  /\ oper.args.op \in {"updateRow", "deleteRow"}
  /\ Raise
  /\ OperOnly

\* the last native call resolves or rejects
NativeSettled(ok) ==
  /\ oper.pc = "native"
  /\ oper' = [oper EXCEPT !.pc = "done", !.threw = ~ok]
  /\ OperOnly

\* r with the values vals in the place of its own
withValues(r, vals) == [i \in DOMAIN r |-> [col |-> r[i].col, val |-> vals[i]]]

\* the same call with other values and another page
CallAgain(filterValues, dataValues, keyValues, p, pageSize) ==
  /\ oper.pc = "done" /\ oper.first = <<>>
  /\ oper' = [args |-> [oper.args EXCEPT
                          !.filters = withValues(@, filterValues),
                          !.data = withValues(@, dataValues),
                          !.primaryKey = withValues(@, keyValues),
                          !.page = IF oper.args.op = "getRows" THEN p ELSE @,
                          !.pageSize = IF oper.args.op = "getRows" THEN pageSize ELSE @],
              pc |-> "start", issued |-> <<>>, threw |-> FALSE,
              first |-> [args |-> oper.args, issued |-> oper.issued,
                         threw |-> oper.threw]]
  /\ OperOnly

\* the arguments of a call: each operation has the ones of its signature
Args(type, op, table, filters, data, primaryKey, sortBy, sortOrder, p, pageSize) ==
  [type |-> type, op |-> op, table |-> table, filters |-> filters, data |-> data,
   primaryKey |-> primaryKey, sortBy |-> sortBy, sortOrder |-> sortOrder,
   page |-> p, pageSize |-> pageSize]

OperArgs ==
  {Args(type, "getRows", table, filters, <<>>, <<>>, sort[1], sort[2], p, pageSize) :
     type \in SqlTypes, table \in Tables, filters \in Records,
     sort \in {<<<<>>, "asc">>} \cup (Columns \X {"asc", "desc"}),
     p \in 1..MaxPage, pageSize \in 1..MaxPageSize}
  \cup {Args(type, "insertRow", table, <<>>, data, <<>>, <<>>, "asc", 1, 1) :
          type \in SqlTypes, table \in Tables, data \in Records}
  \cup {Args(type, "updateRow", table, <<>>, data, primaryKey, <<>>, "asc", 1, 1) :
          type \in SqlTypes, table \in Tables, data \in Records, primaryKey \in Records}
  \cup {Args(type, "deleteRow", table, <<>>, <<>>, primaryKey, <<>>, "asc", 1, 1) :
          type \in SqlTypes, table \in Tables, primaryKey \in Records}

InitOper ==
  /\ InitServer /\ InitNoQuery
  /\ \E a \in OperArgs :
       oper = [args |-> a, pc |-> "start", issued |-> <<>>, threw |-> FALSE,
               first |-> <<>>]
  /\ NoUnit /\ NoCache /\ NoIdent /\ NoPage /\ NoRest

NextOper ==
  \/ PostgresGetRows
  \/ \E ok \in BOOLEAN : PostgresGetRowsCounted(ok)
  \/ PostgresInsertRow
  \/ PostgresUpdateRow
  \/ PostgresDeleteRow
  \/ ClickHouseGetRows
  \/ \E ok \in BOOLEAN : ClickHouseGetRowsCounted(ok)
  \/ ClickHouseInsertRow
  \/ ClickHouseUpdateOrDeleteRow
  \/ \E ok \in BOOLEAN : NativeSettled(ok)
  \/ \E filterValues \in [DOMAIN oper.args.filters -> Values],
        dataValues \in [DOMAIN oper.args.data -> Values],
        keyValues \in [DOMAIN oper.args.primaryKey -> Values],
        p \in 1..MaxPage, pageSize \in 1..MaxPageSize :
       CallAgain(filterValues, dataValues, keyValues, p, pageSize)

SpecOper == InitOper /\ [][NextOper]_vars

\* a name of the call that the validation applied to its place rejects: the
\* table, a filter or sort column, and for the relational adapter a data or
\* primary-key column
RejectedName(a) ==
  \/ ~identifierRegex(a.table)
  \/ \E i \in DOMAIN a.filters : ~identifierRegex(a.filters[i].col)
  \/ a.sortBy # <<>> /\ ~identifierRegex(a.sortBy)
  \/ /\ a.type = "postgresql"
     /\ \/ \E i \in DOMAIN a.data : ~identifierRegex(a.data[i].col)
        \/ \E i \in DOMAIN a.primaryKey : ~identifierRegex(a.primaryKey[i].col)

\* C17: when the table name, a filter column, a data or primary-key column or
\* the sort column of a row operation fails validation, no statement reaches
\* the backend: neither a count statement nor a data statement is issued.
C17_NoNativeCallOnInvalidName ==
  (oper # <<>> /\ RejectedName(oper.args)) => oper.issued = <<>>

C17_Witness ==
  /\ oper # <<>> /\ oper.pc = "done" /\ oper.threw
  /\ oper.args.type = "clickhouse" /\ oper.args.op = "getRows"
  /\ identifierRegex(oper.args.table)
  /\ \A i \in DOMAIN oper.args.filters : identifierRegex(oper.args.filters[i].col)
  /\ oper.args.sortBy # <<>> /\ ~identifierRegex(oper.args.sortBy)
  /\ Len(oper.issued) = 1 /\ oper.issued[1].kind = "count"

\* pat is a piece of text
Contains(text, pat) ==
  \E i \in 0..(Len(text) - Len(pat)) : SubSeq(text, i + 1, i + Len(pat)) = pat

\* the k-th column of a statement has its own placeholder, next to the column's
\* name in the text, and the driver binds that placeholder to val
ColumnBound(type, statement, col, val, k) ==
  IF type = "postgresql"
    THEN /\ Contains(statement.text, <<"\"">> \o col \o <<"\"", " = ", Dollar(k)>>)
         /\ k \in DOMAIN statement.params
         /\ statement.params[k] = Val(val)
    ELSE /\ Contains(statement.text,
                     <<"backtick">> \o col
                       \o <<"backtick", " = ", Curly("filter_" \o ToString(k - 1), "String")>>)
         /\ ("filter_" \o ToString(k - 1)) \in DOMAIN statement.params
         /\ statement.params["filter_" \o ToString(k - 1)] = Val(val)

\* after n filters the limit is bound to the page size and the offset to the
\* rows of the pages before
PageBound(a, statement, n) ==
  IF a.type = "postgresql"
    THEN /\ Contains(statement.text,
                     <<"LIMIT ", Dollar(n + 1), " OFFSET ", Dollar(n + 2)>>)
         /\ DOMAIN statement.params = 1..(n + 2)
         /\ statement.params[n + 1] = Num(a.pageSize)
         /\ statement.params[n + 2] = Num((a.page - 1) * a.pageSize)
    ELSE /\ Contains(statement.text,
                     <<"LIMIT ", Curly("limit", "UInt32"),
                       " OFFSET ", Curly("offset", "UInt32")>>)
         /\ {"limit", "offset"} \subseteq DOMAIN statement.params
         /\ statement.params["limit"] = Num(a.pageSize)
         /\ statement.params["offset"] = Num((a.page - 1) * a.pageSize)

\* every placeholder of the statement is bound to the value of its own column
BindsOwnColumns(a, statement) ==
  CASE statement.kind = "count" ->
         \A i \in DOMAIN a.filters :
           ColumnBound(a.type, statement, a.filters[i].col, a.filters[i].val, i)
    [] statement.kind = "data" ->
         /\ \A i \in DOMAIN a.filters :
              ColumnBound(a.type, statement, a.filters[i].col, a.filters[i].val, i)
         /\ PageBound(a, statement, Len(a.filters))
    [] statement.kind = "insert" ->
         IF a.type = "postgresql"
           THEN /\ DOMAIN statement.params = DOMAIN a.data
                /\ \A i \in DOMAIN a.data :
                     /\ statement.params[i] = Val(a.data[i].val)
                     /\ Contains(statement.text,
                                 <<IF i = 1 THEN " (" ELSE ", ", "\"">>
                                   \o a.data[i].col \o <<"\"">>)
                     /\ Contains(statement.text,
                                 <<IF i = 1 THEN ") VALUES (" ELSE ", ", Dollar(i)>>)
           ELSE statement.text = a.table /\ statement.params = a.data
    [] statement.kind = "update" ->
         /\ \A i \in DOMAIN a.data :
              ColumnBound(a.type, statement, a.data[i].col, a.data[i].val, i)
         /\ \A j \in DOMAIN a.primaryKey :
              ColumnBound(a.type, statement, a.primaryKey[j].col, a.primaryKey[j].val,
                          Len(a.data) + j)
    [] statement.kind = "delete" ->
         \A j \in DOMAIN a.primaryKey :
           ColumnBound(a.type, statement, a.primaryKey[j].col, a.primaryKey[j].val, j)

\* C18: data values never enter statement text. The second call of a run has
\* the identifiers of the first and other filter, data and key values and
\* another page, and each of its statements has the text of the first call's
\* statement; and each placeholder of a statement is bound to the value of its
\* own column, filters first, then limit, then offset, SET values before WHERE
\* values.
C18_ValuesOnlyInParameters ==
  oper # <<>> =>
    /\ oper.first # <<>> =>
         \A i \in DOMAIN oper.issued \cap DOMAIN oper.first.issued :
           /\ oper.issued[i].kind = oper.first.issued[i].kind
           /\ oper.issued[i].text = oper.first.issued[i].text
    /\ \A i \in DOMAIN oper.issued : BindsOwnColumns(oper.args, oper.issued[i])

C18_Witness ==
  /\ oper # <<>> /\ oper.first # <<>> /\ oper.pc = "done" /\ ~oper.threw
  /\ oper.args.type = "postgresql" /\ oper.args.op = "getRows"
  /\ Len(oper.args.filters) = 2
  /\ oper.args.filters[1].val # oper.args.filters[2].val
  /\ oper.args.filters[1].val # oper.first.args.filters[1].val
  /\ oper.args.page # oper.first.args.page
  /\ oper.args.pageSize # oper.first.args.pageSize
  /\ oper.args.sortBy # <<>>
  /\ Len(oper.issued) = 2 /\ Len(oper.first.issued) = 2

\* ---------------------------------------------------------------------------
\* The data-read route: GET /api/data parses its page and pageSize parameters
\* and hands QueryOptions to the adapter. A parameter is a sequence of
\* characters; a JavaScript number is a record, NaN apart from the integers.
\* ---------------------------------------------------------------------------

MaxParamLen == 3

PageOnly ==
  UNCHANGED <<clsVars, srvVars, unit, mcache, ident, oper, paging,
              edit, errs, stats, sample, client>>

\* a digit, the minus sign, a letter
ParamAlphabet == {"0", "1", "9", "-", "z"}
\* searchParams.get(name): null, read here as the empty text, or the text
Params == UNION {[1..n -> ParamAlphabet] : n \in 0..MaxParamLen}

Digits == <<"0", "1", "2", "3", "4", "5", "6", "7", "8", "9">>
IsDigit(c) == \E i \in DOMAIN Digits : Digits[i] = c
DigitValue(c) == (CHOOSE i \in DOMAIN Digits : Digits[i] = c) - 1

NaN == [nan |-> TRUE, n |-> 0]
Number(n) == [nan |-> FALSE, n |-> n]

\* the value of the digits that text starts with, after the digits of value acc
RECURSIVE leadingValue(_, _)
leadingValue(text, acc) ==
  IF text = <<>> \/ ~IsDigit(Head(text)) THEN acc
  ELSE leadingValue(Tail(text), 10 * acc + DigitValue(Head(text)))

\* parseInt(text): an optional sign, then the digits up to the first other
\* character; NaN when there is no digit
parseInt(text) ==
  LET negative == text # <<>> /\ Head(text) = "-"
      body == IF negative THEN Tail(text) ELSE text
  IN  IF body = <<>> \/ ~IsDigit(Head(body)) THEN NaN
      ELSE Number((IF negative THEN -1 ELSE 1) * leadingValue(body, 0))

\* Math.min(x, y)
mathMin(x, y) ==
  IF x.nan \/ y.nan THEN NaN ELSE IF x.n <= y.n THEN x ELSE y

\* param || fallback
orElse(param, fallback) == IF param = <<>> THEN fallback ELSE param

\* const options: QueryOptions = { page, pageSize: Math.min(pageSize, 100), ... }
queryOptions(pageParam, pageSizeParam) ==
  [page |-> parseInt(orElse(pageParam, <<"1">>)),
   pageSize |-> mathMin(parseInt(orElse(pageSizeParam, <<"5", "0">>)), Number(100))]

\* GET /api/data up to await adapter.getRows: 400 on a bad connection id, table
\* name or filters text, 404 without an adapter
DataGet(early) ==
  /\ page.pc = "start"
  /\ IF early # 0
       THEN page' = [page EXCEPT !.pc = "done", !.status = early]
       ELSE page' = [page EXCEPT !.pc = "getRows",
                                 !.options = queryOptions(page.pageParam, page.pageSizeParam)]
  /\ PageOnly

\* GET /api/data after adapter.getRows: the result, or 500 when it threw
DataGetReturned(ok) ==
  /\ page.pc = "getRows"
  /\ page' = [page EXCEPT !.pc = "done", !.status = IF ok THEN 200 ELSE 500]
  /\ PageOnly

InitPage ==
  /\ InitServer /\ InitNoQuery
  /\ \E pageParam, pageSizeParam \in Params :
       page = [pc |-> "start", pageParam |-> pageParam, pageSizeParam |-> pageSizeParam,
               options |-> <<>>, status |-> 0]
  /\ paging = <<>>
  /\ NoUnit /\ NoCache /\ NoIdent /\ NoOper /\ NoRest

NextPage ==
  \/ \E early \in {0, 400, 404} : DataGet(early)
  \/ \E ok \in BOOLEAN : DataGetReturned(ok)

SpecPage == InitPage /\ [][NextPage]_vars

\* C19: the QueryOptions the data-read route hands to an adapter have an
\* integer page number of at least 1 and an integer page size between 1 and
\* 100, whatever the request parameters are; a requested page size above 100
\* is handed on as 100 and one of at most 100 unchanged.
C19_HandedOptionsValid ==
  (page # <<>> /\ page.options # <<>>)
    => LET requested == parseInt(orElse(page.pageSizeParam, <<"5", "0">>))
       IN  /\ ~page.options.page.nan /\ page.options.page.n >= 1
           /\ ~page.options.pageSize.nan
           /\ page.options.pageSize.n >= 1 /\ page.options.pageSize.n <= 100
           /\ (~requested.nan /\ requested.n > 100) => page.options.pageSize.n = 100
           /\ (~requested.nan /\ requested.n <= 100) => page.options.pageSize = requested

C19_Witness ==
  /\ page # <<>> /\ page.pc = "getRows"
  /\ page.pageParam = <<"0">> /\ page.pageSizeParam = <<"z">>
  /\ page.options.page = Number(0)
  /\ page.options.pageSize.nan

\* ---------------------------------------------------------------------------
\* getRows of the three adapters over one table, read page after page with the
\* same options. The backend answers a count with the number of rows it has
\* and a data query with the rows of the window [offset, offset + limit); other
\* clients may insert and delete rows in between.
\* ---------------------------------------------------------------------------

MaxRows == 3
MaxReads == 4

PagingOnly ==
  UNCHANGED <<clsVars, srvVars, unit, mcache, ident, oper, page,
              edit, errs, stats, sample, client>>

\* the decimal text of a count, as the relational and the columnar driver
\* return it
RECURSIVE decimal(_)
decimal(n) ==
  IF n < 10 THEN <<Digits[n + 1]>> ELSE Append(decimal(n \div 10), Digits[(n % 10) + 1])

\* Number(text || 0)
numberOrZero(text) ==
  IF text = <<>> THEN Number(0)
  ELSE IF \A i \in DOMAIN text : IsDigit(text[i]) THEN Number(leadingValue(text, 0))
  ELSE NaN

\* the rows the backend returns for LIMIT limit OFFSET offset, skip(offset).limit(limit)
window(rows, limit, offset) ==
  IF rows - offset <= 0 THEN 0
  ELSE IF rows - offset < limit THEN rows - offset ELSE limit

\* the quotient rounded down
mathFloorOfQuotient(total, pageSize) ==
  IF total.nan THEN NaN ELSE Number(total.n \div pageSize)

\* Math.ceil(total / pageSize) for total >= 0 and pageSize >= 1
mathCeilOfQuotient(total, pageSize) ==
  IF total.nan THEN NaN ELSE Number((total.n + pageSize - 1) \div pageSize)

\* return { data, total, page, pageSize, totalPages }
paginatedResult(data, total, p, pageSize) ==
  [data |-> data, total |-> total, page |-> p, pageSize |-> pageSize,
   totalPages |-> mathCeilOfQuotient(total, pageSize)]

\* getRows(table, { page, pageSize }) up to its first await: page Len(reads) + 1
\* of the reading; the document adapter sends find and countDocuments together
PagingGetRows ==
  /\ paging.pc = "idle"
  /\ Len(paging.reads) < MaxReads
  /\ paging' = [paging EXCEPT
       !.pc = IF paging.type = "mongodb" THEN "both" ELSE "count",
       !.page = Len(paging.reads) + 1,
       !.offset = Len(paging.reads) * paging.pageSize,
       !.log = IF paging.type = "mongodb"
                 THEN <<<<"data", "sent">>, <<"count", "sent">>>>
                 ELSE <<<<"count", "sent">>>>]
  /\ PagingOnly

\* the count comes back and the data query goes out
PagingCounted ==
  /\ paging.pc = "count"
  /\ paging' = [paging EXCEPT
       !.pc = "data",
       !.total = IF paging.type = "postgresql"
                   THEN parseInt(decimal(paging.rows))
                   ELSE numberOrZero(decimal(paging.rows)),
       !.log = @ \o <<<<"count", "returned">>, <<"data", "sent">>>>]
  /\ PagingOnly

\* the rows come back and getRows returns
PagingFetched ==
  /\ paging.pc = "data"
  /\ paging' = [paging EXCEPT
       !.pc = "idle",
       !.log = Append(@, <<"data", "returned">>),
       !.reads = Append(@, [offset |-> paging.offset,
                            result |-> paginatedResult(
                                         window(paging.rows, paging.pageSize, paging.offset),
                                         paging.total, paging.page, paging.pageSize)])]
  /\ PagingOnly

\* Promise.all of the document adapter has both answers: getRows returns
PagingBoth(p) ==
  IF p.pc # "idle" THEN p
  ELSE [p EXCEPT !.reads = Append(@, [offset |-> p.offset,
                                      result |-> paginatedResult(p.data, p.total,
                                                                 p.page, p.pageSize)])]

\* the cursor of the document adapter has its rows, before or after the count
PagingFound ==
  /\ paging.pc \in {"both", "find"}
  /\ paging' = PagingBoth([paging EXCEPT
       !.pc = IF paging.pc = "both" THEN "countDocuments" ELSE "idle",
       !.log = Append(@, <<"data", "returned">>),
       !.data = window(paging.rows, paging.pageSize, paging.offset)])
  /\ PagingOnly

\* countDocuments has come back, before or after the rows
PagingCountedDocuments ==
  /\ paging.pc \in {"both", "countDocuments"}
  /\ paging' = PagingBoth([paging EXCEPT
       !.pc = IF paging.pc = "both" THEN "find" ELSE "idle",
       !.log = Append(@, <<"count", "returned">>),
       !.total = Number(paging.rows)])
  /\ PagingOnly

\* another client inserts or deletes a row
Mutate(delta) ==
  /\ paging.rows + delta \in 0..MaxRows
  /\ paging' = [paging EXCEPT !.rows = @ + delta, !.mutated = TRUE]
  /\ PagingOnly

InitPaging ==
  /\ InitServer /\ InitNoQuery
  /\ \E type \in {"postgresql", "clickhouse", "mongodb"},
        rows \in 0..MaxRows, pageSize \in 1..MaxPageSize :
       paging = [type |-> type, rows |-> rows, pageSize |-> pageSize, mutated |-> FALSE,
                 pc |-> "idle", page |-> 0, offset |-> 0, total |-> Number(0),
                 data |-> 0, log |-> <<>>, reads |-> <<>>]
  /\ page = <<>>
  /\ NoUnit /\ NoCache /\ NoIdent /\ NoOper /\ NoRest

NextPaging ==
  \/ PagingGetRows
  \/ PagingCounted
  \/ PagingFetched
  \/ PagingFound
  \/ PagingCountedDocuments
  \/ \E delta \in {-1, 1} : Mutate(delta)

SpecPaging == InitPaging /\ [][NextPaging]_vars

\* the least number of pages of pageSize rows that hold total rows
LeastPages(total, pageSize) ==
  CHOOSE n \in 0..total :
    n * pageSize >= total /\ \A m \in 0..(n - 1) : m * pageSize < total

\* the rows of the first n reads together
RECURSIVE RowsRead(_, _)
RowsRead(reads, n) ==
  IF n = 0 THEN 0 ELSE reads[n].result.data + RowsRead(reads, n - 1)

\* C20: the totalPages of every getRows result of every adapter is
\* ceil(total / pageSize); and when the table is not mutated while pages
\* 1..totalPages are read with the same options, the row counts of the pages
\* add up to total, no page has more than pageSize rows, and page p starts at
\* offset (p - 1) * pageSize.
C20_PagesCoverTotal ==
  paging # <<>> =>
    /\ \A i \in DOMAIN paging.reads :
         LET r == paging.reads[i].result
         IN  /\ ~r.total.nan /\ ~r.totalPages.nan
             /\ r.totalPages.n = LeastPages(r.total.n, r.pageSize)
    /\ (/\ ~paging.mutated
        /\ paging.reads # <<>>
        /\ ~paging.reads[1].result.totalPages.nan
        /\ Len(paging.reads) >= paging.reads[1].result.totalPages.n)
         => LET pages == paging.reads[1].result.totalPages.n
            IN  /\ RowsRead(paging.reads, pages) = paging.reads[1].result.total.n
                /\ \A p \in 1..pages :
                     /\ paging.reads[p].result.page = p
                     /\ paging.reads[p].result.data <= paging.pageSize
                     /\ paging.reads[p].offset = (p - 1) * paging.pageSize

C20_Witness ==
  /\ paging # <<>> /\ ~paging.mutated /\ paging.pc = "idle"
  /\ paging.type = "clickhouse"
  /\ paging.rows = 3 /\ paging.pageSize = 2
  /\ Len(paging.reads) = 2
  /\ paging.reads[2].result.totalPages = Number(2)
  /\ paging.reads[2].result.data = 1

\* C21: getRows of every adapter sends the count of the rows that match the
\* filters first and sends the page fetch only after the count has returned:
\* in the requests of one getRows call no page fetch goes out before the count
\* has come back.
C21_CountReturnsBeforePageFetch ==
  paging # <<>> =>
    \A i \in DOMAIN paging.log :
      paging.log[i] = <<"data", "sent">>
        => \E j \in 1..(i - 1) : paging.log[j] = <<"count", "returned">>

C21_Witness ==
  /\ paging # <<>> /\ paging.type = "mongodb" /\ paging.pc = "find"
  /\ paging.log = <<<<"data", "sent">>, <<"count", "sent">>, <<"count", "returned">>>>

\* ---------------------------------------------------------------------------
\* Row edits: PUT and DELETE /api/data with the adapter's updateRow / deleteRow
\* and the table they act on. A row has an _id and a column c; a primary-key map
\* and a data map are functions from some of the two names to values.
\* ---------------------------------------------------------------------------

EditOnly ==
  UNCHANGED <<clsVars, srvVars, unit, mcache, ident, oper, page, paging,
              errs, stats, sample, client>>

RowIds == {"r1", "r2"}
CValues == {"old", "new"}
EditTypes == {"postgresql", "clickhouse", "mongodb"}

\* Record<string, unknown> over the two column names
Maps ==
  {<<>>} \cup {[_id |-> i] : i \in RowIds} \cup {[c |-> v] : v \in CValues}
    \cup {[_id |-> i, c |-> v] : i \in RowIds, v \in CValues}

\* a field of a request body: absent, or a map
Absent == [present |-> FALSE, map |-> <<>>]
Present(m) == [present |-> TRUE, map |-> m]

\* the tables: the rows present, each with its c
TableStates == UNION {[ids -> CValues] : ids \in SUBSET RowIds}

\* the row of id as a document
rowOf(tbl, id) == [_id |-> id, c |-> tbl[id]]

\* the rows a predicate map selects: every column of the map has the map's value
matching(tbl, filter) ==
  {id \in DOMAIN tbl : \A col \in DOMAIN filter : rowOf(tbl, id)[col] = filter[col]}

\* m without the keys in cols
without(m, cols) == [col \in DOMAIN m \ cols |-> m[col]]

\* the rows of ids with the c of data set (a row keeps its _id)
assigned(tbl, ids, data) ==
  [id \in DOMAIN tbl |->
     IF id \in ids /\ "c" \in DOMAIN data THEN data["c"] ELSE tbl[id]]

\* the update route passes data on as it came
updateDataUnfiltered(primaryKey, data) == data

\* const pkColumns = new Set(Object.keys(primaryKey)); updateData has the
\* entries of data whose key is not in pkColumns
updateData(primaryKey, data) == without(data, DOMAIN primaryKey)

\* the route answers
EditRespond(e, status) == [e EXCEPT !.pc = "done", !.status = status]

\* PUT /api/data up to the await in adapter.updateRow. early is the answer of
\* the checks on connection id, table name, read-only flag and registry, 0 when
\* they pass; the columnar adapter's updateRow throws at once
DataPutRow(early) ==
  /\ edit.pc = "start" /\ edit.kind = "update"
  /\ edit' =
       IF early = 400 \/ ~edit.primaryKey.present \/ ~edit.data.present
         THEN EditRespond(edit, 400)
       ELSE IF early # 0 THEN EditRespond(edit, early)
       ELSE LET passed == updateData(edit.primaryKey.map, edit.data.map) IN
            IF DOMAIN passed = {} THEN EditRespond(edit, 400)
            ELSE LET called == [edit EXCEPT !.called = TRUE, !.passed = passed]
                 IN  IF edit.type = "clickhouse" THEN EditRespond(called, 500)
                     ELSE [called EXCEPT !.pc = "update"]
  /\ EditOnly

\* DELETE /api/data up to the await in adapter.deleteRow; primaryKey is the
\* text of a query parameter, parsed after the checks
DataDeleteRow(early, parses) ==
  /\ edit.pc = "start" /\ edit.kind = "delete"
  /\ edit' =
       IF early = 400 \/ ~edit.primaryKey.present THEN EditRespond(edit, 400)
       ELSE IF early # 0 THEN EditRespond(edit, early)
       ELSE IF ~parses THEN EditRespond(edit, 400)
       ELSE LET called == [edit EXCEPT !.called = TRUE]
            IN  IF edit.type = "clickhouse" THEN EditRespond(called, 500)
                ELSE [called EXCEPT !.pc = "delete"]
  /\ EditOnly

\* PostgresAdapter.updateRow after pool.query: UPDATE ... SET ... WHERE with no
\* condition is no statement and the backend refuses it; result.rowCount === 0
\* throws
PostgresUpdated(ok) ==
  /\ edit.pc = "update" /\ edit.type = "postgresql"
  /\ LET hit == matching(edit.table, edit.primaryKey.map) IN
     IF ~ok \/ DOMAIN edit.primaryKey.map = {}
       THEN edit' = EditRespond(edit, 500)
       ELSE edit' = EditRespond([edit EXCEPT !.table = assigned(@, hit, edit.passed),
                                             !.matched = <<hit # {}>>],
                                IF hit = {} THEN 500 ELSE 200)
  /\ EditOnly

\* PostgresAdapter.deleteRow after pool.query; the route answers { success }
PostgresDeleted(ok) ==
  /\ edit.pc = "delete" /\ edit.type = "postgresql"
  /\ LET hit == matching(edit.table, edit.primaryKey.map) IN
     IF ~ok \/ DOMAIN edit.primaryKey.map = {}
       THEN edit' = EditRespond(edit, 500)
       ELSE edit' = EditRespond([edit EXCEPT
                                   !.table = [id \in DOMAIN edit.table \ hit |-> edit.table[id]],
                                   !.matched = <<hit # {}>>],
                                200)
  /\ EditOnly

\* MongoDBAdapter.updateRow after collection.updateOne(filter, { $set }): one
\* of the documents the filter selects is updated, then findOne goes out
MongoUpdated(ok, id) ==
  /\ edit.pc = "update" /\ edit.type = "mongodb"
  /\ LET hit == matching(edit.table, edit.primaryKey.map) IN
     /\ id \in hit \/ (hit = {} /\ id = "")
     /\ IF ~ok THEN edit' = EditRespond(edit, 500)
        ELSE edit' = [edit EXCEPT !.pc = "findOne",
                                  !.table = assigned(@, hit \cap {id},
                                                     without(edit.passed, {"_id"})),
                                  !.matched = <<hit # {}>>]
  /\ EditOnly

\* MongoDBAdapter.updateRow after collection.findOne(filter): the document, or
\* { ...data, ...primaryKey } when there is none
MongoFoundOne(ok) ==
  /\ edit.pc = "findOne"
  /\ edit' = EditRespond(edit, IF ok THEN 200 ELSE 500)
  /\ EditOnly

\* MongoDBAdapter.deleteRow after collection.deleteOne(filter): one of the
\* documents the filter selects is deleted
MongoDeleted(ok, id) ==
  /\ edit.pc = "delete" /\ edit.type = "mongodb"
  /\ LET hit == matching(edit.table, edit.primaryKey.map) IN
     /\ id \in hit \/ (hit = {} /\ id = "")
     /\ IF ~ok THEN edit' = EditRespond(edit, 500)
        ELSE edit' = EditRespond([edit EXCEPT
                                    !.table = [i \in DOMAIN edit.table \ {id} |-> edit.table[i]],
                                    !.matched = <<hit # {}>>],
                                 200)
  /\ EditOnly

InitEdit ==
  /\ InitServer /\ InitNoQuery
  /\ \E type \in EditTypes, kind \in {"update", "delete"}, tbl \in TableStates,
        primaryKey \in {Absent} \cup {Present(m) : m \in Maps},
        data \in {Absent} \cup {Present(m) : m \in Maps} :
       /\ kind = "delete" => data = Absent
       /\ edit = [type |-> type, kind |-> kind, before |-> tbl, table |-> tbl,
                  primaryKey |-> primaryKey, data |-> data,
                  pc |-> "start", called |-> FALSE, passed |-> <<>>,
                  matched |-> <<>>, status |-> 0]
  /\ NoUnit /\ NoCache /\ NoIdent /\ NoOper /\ NoPage
  /\ NoErrs /\ NoStats /\ NoSample /\ NoClient

NextEdit ==
  \/ \E early \in {0, 400, 403, 404} : DataPutRow(early)
  \/ \E early \in {0, 400, 403, 404}, parses \in BOOLEAN : DataDeleteRow(early, parses)
  \/ \E ok \in BOOLEAN : PostgresUpdated(ok)
  \/ \E ok \in BOOLEAN : PostgresDeleted(ok)
  \/ \E ok \in BOOLEAN, id \in RowIds \cup {""} : MongoUpdated(ok, id)
  \/ \E ok \in BOOLEAN : MongoFoundOne(ok)
  \/ \E ok \in BOOLEAN, id \in RowIds \cup {""} : MongoDeleted(ok, id)

SpecEdit == InitEdit /\ [][NextEdit]_vars

\* C22: an update or delete whose primary-key map is empty is rejected and
\* changes no row of any backend.
C22_EmptyKeyChangesNothing ==
  (edit # <<>> /\ DOMAIN edit.primaryKey.map = {})
    => /\ edit.table = edit.before
       /\ edit.pc = "done" => edit.status # 200

C22_Witness ==
  /\ edit # <<>> /\ edit.pc = "done" /\ edit.status = 200
  /\ edit.type = "mongodb" /\ edit.kind = "delete"
  /\ edit.primaryKey = Present(<<>>)
  /\ DOMAIN edit.before = RowIds
  /\ DOMAIN edit.table # RowIds

\* C23: the data the update route passes to updateRow has no field of the
\* primary-key map; when no other field is left the route answers with a
\* validation error and updateRow is not called.
C23_KeyFieldsDropped ==
  (edit # <<>> /\ edit.kind = "update")
    => /\ edit.called =>
            /\ DOMAIN edit.passed \cap DOMAIN edit.primaryKey.map = {}
            /\ DOMAIN edit.passed # {}
            /\ \A col \in DOMAIN edit.passed : edit.passed[col] = edit.data.map[col]
       /\ (/\ edit.pc = "done" /\ edit.primaryKey.present /\ edit.data.present
           /\ DOMAIN edit.data.map \subseteq DOMAIN edit.primaryKey.map
           /\ edit.status \notin {403, 404})
            => edit.status = 400 /\ ~edit.called

C23_Witness ==
  /\ edit # <<>> /\ edit.kind = "update" /\ edit.called
  /\ edit.primaryKey = Present([_id |-> "r1"])
  /\ edit.data = Present([_id |-> "r2", c |-> "new"])
  /\ edit.passed = [c |-> "new"]

\* C24: on a backend that supports update, an update whose primary-key
\* predicate matches no row is answered with an error, never with a success
\* that carries row data.
C24_ZeroRowUpdateIsError ==
  (/\ edit # <<>> /\ edit.kind = "update" /\ edit.pc = "done"
   /\ edit.type \in {"postgresql", "mongodb"}
   /\ edit.matched = <<FALSE>>)
    => edit.status # 200

C24_Witness ==
  /\ edit # <<>> /\ edit.kind = "update" /\ edit.pc = "done"
  /\ edit.type = "mongodb"
  /\ edit.primaryKey = Present([_id |-> "r2"])
  /\ DOMAIN edit.before = {"r1"}
  /\ edit.matched = <<FALSE>> /\ edit.status = 200

\* ---------------------------------------------------------------------------
\* Error messages at the boundary: sanitizeError and the routes' answers when a
\* native call fails. A message is a sequence of pieces of text followed by a
\* number of blanks; "x" is any run of characters that are neither white space
\* nor @.
\* ---------------------------------------------------------------------------

ErrsOnly ==
  UNCHANGED <<clsVars, srvVars, unit, mcache, ident, oper, page, paging,
              edit, stats, sample, client>>

MaxMsgLen == 3

\* msg.length > 500, msg.slice(0, 500)
Limit == 500

MsgAlphabet == {"postgresql://", "@", "/home/", "/var/", "password=", " ", "x"}

Texts == UNION {[1..n -> MsgAlphabet] : n \in 1..MaxMsgLen}

Blanks == {0, Limit - 20, Limit}

Messages == {[text |-> t, blanks |-> b, ellipsis |-> FALSE] : t \in Texts, b \in Blanks}

\* the number of characters of a piece
pieceLength(piece) ==
  CASE piece = "postgresql://" -> 13
    [] piece = "password=" -> 9
    [] piece = "/home/" -> 6
    [] piece = "/var/" -> 5
    [] piece = "***" -> 3
    [] OTHER -> 1

RECURSIVE textLength(_)
textLength(t) == IF t = <<>> THEN 0 ELSE pieceLength(Head(t)) + textLength(Tail(t))

\* msg.length
length(m) == textLength(m.text) + m.blanks + (IF m.ellipsis THEN 3 ELSE 0)

\* the index where the longest run of pieces outside stop that begins at i
\* ends, i - 1 when the run is empty
RECURSIVE runEnd(_, _, _)
runEnd(t, i, stop) ==
  IF i > Len(t) \/ t[i] \in stop THEN i - 1 ELSE runEnd(t, i + 1, stop)

\* msg.replace(/postgresql:\/\/[^@]+@/gi, "postgresql://***@")
RECURSIVE replaceCredentials(_)
replaceCredentials(t) ==
  IF t = <<>> THEN <<>>
  ELSE LET e == runEnd(t, 2, {"@"}) IN
       IF Head(t) = "postgresql://" /\ e >= 2 /\ e < Len(t)
         THEN <<"postgresql://", "***", "@">> \o replaceCredentials(SubSeq(t, e + 2, Len(t)))
         ELSE <<Head(t)>> \o replaceCredentials(Tail(t))

\* msg.replace(/\/home\/[^\s]+/g, "/home/***")
RECURSIVE replacePaths(_)
replacePaths(t) ==
  IF t = <<>> THEN <<>>
  ELSE LET e == runEnd(t, 2, {" "}) IN
       IF Head(t) = "/home/" /\ e >= 2
         THEN <<"/home/", "***">> \o replacePaths(SubSeq(t, e + 1, Len(t)))
         ELSE <<Head(t)>> \o replacePaths(Tail(t))

\* msg.replace(/password[=:]\s*\S+/gi, "password=***")
RECURSIVE replacePasswords(_)
replacePasswords(t) ==
  IF t = <<>> THEN <<>>
  ELSE LET s == runEnd(t, 2, (MsgAlphabet \cup {"***"}) \ {" "}) + 1
           e == runEnd(t, s, {" "})
       IN  IF Head(t) = "password=" /\ e >= s
             THEN <<"password=", "***">> \o replacePasswords(SubSeq(t, e + 1, Len(t)))
             ELSE <<Head(t)>> \o replacePasswords(Tail(t))

\* if (msg.length > 500) msg = msg.slice(0, 500) + "..."; the text of a
\* message here is shorter than 500 characters, so the cut falls in the blanks
truncate(m) ==
  IF length(m) > Limit
    THEN [m EXCEPT !.blanks = Limit - textLength(m.text), !.ellipsis = TRUE]
    ELSE m

\* sanitizeError(error) for an Error with message m
sanitizeError(m) ==
  truncate([m EXCEPT !.text = replacePasswords(replacePaths(replaceCredentials(@)))])

\* an answer with a message in it
Answer(route, status, out) ==
  [errs EXCEPT !.pc = "done", !.route = route, !.status = status, !.out = out]

\* POST /api/connect: adapter.testConnection() returns { success: false,
\* message: error.message } and the route answers with it
ConnectTestFailed ==
  /\ errs.pc = "start"
  /\ errs' = Answer("connect", 200, errs.message)
  /\ ErrsOnly

\* POST /api/connect: createAdapter or cachedAdapter.connect() throws
ConnectThrew ==
  /\ errs.pc = "start"
  /\ errs' = Answer("connect", 500, sanitizeError(errs.message))
  /\ ErrsOnly

\* POST /api/query: adapter.executeQuery returns a result with error:
\* error.message and the route answers with it
QueryResultError ==
  /\ errs.pc = "start"
  /\ errs' = Answer("query", 200, errs.message)
  /\ ErrsOnly

\* POST /api/query: adapter.connect() throws
QueryThrew ==
  /\ errs.pc = "start"
  /\ errs' = Answer("query", 500, sanitizeError(errs.message))
  /\ ErrsOnly

\* GET, POST, PUT, DELETE /api/data: the adapter throws
DataThrew ==
  /\ errs.pc = "start"
  /\ errs' = Answer("data", 500, sanitizeError(errs.message))
  /\ ErrsOnly

\* GET /api/tables: the adapter throws
TablesThrew ==
  /\ errs.pc = "start"
  /\ errs' = Answer("tables", 500, errs.message)
  /\ ErrsOnly

\* GET /api/schema: the adapter throws
SchemaThrew ==
  /\ errs.pc = "start"
  /\ errs' = Answer("schema", 500, errs.message)
  /\ ErrsOnly

InitErrs ==
  /\ InitServer /\ InitNoQuery
  /\ \E m \in Messages :
       errs = [message |-> m, pc |-> "start", route |-> "", status |-> 0, out |-> m]
  /\ NoUnit /\ NoCache /\ NoIdent /\ NoOper /\ NoPage
  /\ NoEdit /\ NoStats /\ NoSample /\ NoClient

NextErrs ==
  \/ ConnectTestFailed
  \/ ConnectThrew
  \/ QueryResultError
  \/ QueryThrew
  \/ DataThrew
  \/ TablesThrew
  \/ SchemaThrew

SpecErrs == InitErrs /\ [][NextErrs]_vars

\* credentials between the scheme of a connection string and its @
HasCredentials(t) ==
  \E i \in DOMAIN t, j \in DOMAIN t :
    /\ t[i] = "postgresql://" /\ t[j] = "@" /\ j > i + 1
    /\ \A k \in (i + 1)..(j - 1) : t[k] # "@"
    /\ SubSeq(t, i + 1, j - 1) # <<"***">>

\* a path below a directory
HasPath(t) ==
  \E i \in DOMAIN t :
    /\ t[i] \in {"/home/", "/var/"} /\ i < Len(t)
    /\ t[i + 1] \notin {" ", "***"}

\* a password assignment with its value
HasPassword(t) ==
  \E i \in DOMAIN t, j \in DOMAIN t :
    /\ t[i] = "password=" /\ j > i
    /\ \A k \in (i + 1)..(j - 1) : t[k] = " "
    /\ t[j] \notin {" ", "***"}

Sanitized(m) ==
  /\ ~HasCredentials(m.text) /\ ~HasPath(m.text) /\ ~HasPassword(m.text)
  /\ length(m) <= Limit + 3

\* C25: every error message that crosses the boundary of the connect, query,
\* data, tables and schema operations holds no connection-string credentials,
\* no filesystem path and no password assignment and has at most 500 characters
\* plus an ellipsis.
C25_MessagesSanitized ==
  (errs # <<>> /\ errs.pc = "done") => Sanitized(errs.out)

C25_Witness ==
  /\ errs # <<>> /\ errs.pc = "done" /\ errs.route = "query" /\ errs.status = 200
  /\ errs.message.text = <<"postgresql://", "x", "@">>
  /\ errs.message.blanks = Limit
  /\ errs.out = errs.message

\* ---------------------------------------------------------------------------
\* Native calls of one adapter operation: the statistics operations and the raw
\* query of the relational adapter, with the calls they issue, the first
\* failure and what the operation hands back.
\* ---------------------------------------------------------------------------

StatsOnly ==
  UNCHANGED <<clsVars, srvVars, unit, mcache, ident, oper, page, paging,
              edit, errs, sample, client>>

MaxStat == 2

\* what the backend holds for the table and the database
Facts ==
  [rowCount : 0..MaxStat, sizeBytes : 0..MaxStat, indexCount : 0..MaxStat,
   tableCount : 1..2]

\* a native call goes out
issue(s, names) == [s EXCEPT !.issued = @ \o names]

\* a native call fails: the number of calls issued so far is kept
fail(s) == [s EXCEPT !.failed = IF @ = 0 THEN Len(s.issued) ELSE @]

\* the operation returns value, or throws
return(s, value) == [s EXCEPT !.pc = "done", !.result = <<"value", value>>]
throw(s) == [s EXCEPT !.pc = "done", !.result = <<"error">>]

\* the operation op starts and sends its first calls
begin(s, op, pc, names) == issue([s EXCEPT !.op = op, !.pc = pc], names)

\* MongoDBAdapter.getTableStats up to await Promise.all([...])
MongoGetTableStats ==
  /\ stats.pc = "start"
  /\ stats' = begin(stats, "mongodb.getTableStats", "all", <<"estimatedDocumentCount", "indexes">>)
  /\ StatsOnly

\* Promise.all settles; the catch block sends countDocuments
MongoGetTableStatsSettled(ok) ==
  /\ stats.op = "mongodb.getTableStats" /\ stats.pc = "all"
  /\ stats' =
       IF ok THEN return(stats, [rowCount |-> stats.facts.rowCount, sizeBytes |-> 0,
                                 indexCount |-> stats.facts.indexCount])
       ELSE issue([fail(stats) EXCEPT !.pc = "countDocuments"], <<"countDocuments">>)
  /\ StatsOnly

\* countDocuments of the catch block returns
MongoGetTableStatsCounted(ok) ==
  /\ stats.op = "mongodb.getTableStats" /\ stats.pc = "countDocuments"
  /\ stats' =
       IF ok THEN return(stats, [rowCount |-> stats.facts.rowCount, sizeBytes |-> 0,
                                 indexCount |-> 0])
       ELSE throw(fail(stats))
  /\ StatsOnly

\* MongoDBAdapter.getDatabaseStats up to await db.listCollections().toArray()
MongoGetDatabaseStats ==
  /\ stats.pc = "start"
  /\ stats' = begin(stats, "mongodb.getDatabaseStats", "listCollections", <<"listCollections">>)
  /\ StatsOnly

\* listCollections returns: serverStatus goes out; on failure the catch block
\* sends listCollections again
MongoGetDatabaseStatsListed(ok) ==
  /\ stats.op = "mongodb.getDatabaseStats" /\ stats.pc = "listCollections"
  /\ stats' =
       IF ok THEN issue([stats EXCEPT !.pc = "serverStatus"], <<"serverStatus">>)
       ELSE issue([fail(stats) EXCEPT !.pc = "again"], <<"listCollections">>)
  /\ StatsOnly

\* admin.serverStatus() returns; its failure is swallowed
MongoGetDatabaseStatsStatus(ok) ==
  /\ stats.op = "mongodb.getDatabaseStats" /\ stats.pc = "serverStatus"
  /\ stats' =
       LET s == IF ok THEN stats ELSE fail(stats) IN
       return(s, [totalSize |-> 0, tableCount |-> stats.facts.tableCount,
                  version |-> IF ok THEN "MongoDB 7" ELSE "MongoDB"])
  /\ StatsOnly

\* listCollections of the catch block returns
MongoGetDatabaseStatsListedAgain(ok) ==
  /\ stats.op = "mongodb.getDatabaseStats" /\ stats.pc = "again"
  /\ stats' =
       IF ok THEN return(stats, [totalSize |-> 0, tableCount |-> stats.facts.tableCount,
                                 version |-> "MongoDB"])
       ELSE throw(fail(stats))
  /\ StatsOnly

\* PostgresAdapter.getTableStats up to await pool.query
PostgresGetTableStats ==
  /\ stats.pc = "start"
  /\ stats' = begin(stats, "postgresql.getTableStats", "query", <<"query">>)
  /\ StatsOnly

\* pool.query returns; the catch block returns zeros
PostgresGetTableStatsReturned(ok) ==
  /\ stats.op = "postgresql.getTableStats" /\ stats.pc = "query"
  /\ stats' =
       IF ok THEN return(stats, [rowCount |-> stats.facts.rowCount,
                                 sizeBytes |-> stats.facts.sizeBytes,
                                 indexCount |-> stats.facts.indexCount])
       ELSE return(fail(stats), [rowCount |-> 0, sizeBytes |-> 0, indexCount |-> 0])
  /\ StatsOnly

\* ClickHouseAdapter.getTableStats up to await client.query
ClickHouseGetTableStats ==
  /\ stats.pc = "start"
  /\ stats' = begin(stats, "clickhouse.getTableStats", "query", <<"query">>)
  /\ StatsOnly

\* client.query returns
ClickHouseGetTableStatsReturned(ok) ==
  /\ stats.op = "clickhouse.getTableStats" /\ stats.pc = "query"
  /\ stats' =
       IF ok THEN return(stats, [rowCount |-> stats.facts.rowCount,
                                 sizeBytes |-> stats.facts.sizeBytes,
                                 indexCount |-> 0])
       ELSE throw(fail(stats))
  /\ StatsOnly

\* PostgresAdapter.executeQuery up to await pool.query(query)
PostgresExecuteQuery ==
  /\ stats.pc = "start"
  /\ stats' = begin(stats, "postgresql.executeQuery", "query", <<"query">>)
  /\ StatsOnly

\* pool.query returns; the catch block returns a result with error set
PostgresExecuteQueryReturned(ok) ==
  /\ stats.op = "postgresql.executeQuery" /\ stats.pc = "query"
  /\ stats' =
       IF ok THEN return(stats, [rows |-> stats.facts.rowCount,
                                 rowCount |-> stats.facts.rowCount, error |-> FALSE])
       ELSE return(fail(stats), [rows |-> 0, rowCount |-> 0, error |-> TRUE])
  /\ StatsOnly

InitStats ==
  /\ InitServer /\ InitNoQuery
  /\ \E facts \in Facts :
       stats = [facts |-> facts, op |-> "", pc |-> "start", issued |-> <<>>,
                failed |-> 0, result |-> <<>>]
  /\ NoUnit /\ NoCache /\ NoIdent /\ NoOper /\ NoPage
  /\ NoEdit /\ NoErrs /\ NoSample /\ NoClient

NextStats ==
  \/ MongoGetTableStats
  \/ \E ok \in BOOLEAN : MongoGetTableStatsSettled(ok)
  \/ \E ok \in BOOLEAN : MongoGetTableStatsCounted(ok)
  \/ MongoGetDatabaseStats
  \/ \E ok \in BOOLEAN : MongoGetDatabaseStatsListed(ok)
  \/ \E ok \in BOOLEAN : MongoGetDatabaseStatsStatus(ok)
  \/ \E ok \in BOOLEAN : MongoGetDatabaseStatsListedAgain(ok)
  \/ PostgresGetTableStats
  \/ \E ok \in BOOLEAN : PostgresGetTableStatsReturned(ok)
  \/ ClickHouseGetTableStats
  \/ \E ok \in BOOLEAN : ClickHouseGetTableStatsReturned(ok)
  \/ PostgresExecuteQuery
  \/ \E ok \in BOOLEAN : PostgresExecuteQueryReturned(ok)

SpecStats == InitStats /\ [][NextStats]_vars

\* C26: within one operation each native call is issued at most once; once a
\* native call has failed no further one is issued, and the operation ends in
\* an error (for the raw query: in a result with error set, no rows and
\* rowCount 0), never in a value that stands in for the failed call.
C26_NoRetryNoFallback ==
  stats # <<>> =>
    /\ \A i, j \in DOMAIN stats.issued : stats.issued[i] = stats.issued[j] => i = j
    /\ stats.failed > 0 => Len(stats.issued) = stats.failed
    /\ (stats.failed > 0 /\ stats.pc = "done") =>
         \/ stats.result = <<"error">>
         \/ /\ stats.op = "postgresql.executeQuery"
            /\ stats.result = <<"value", [rows |-> 0, rowCount |-> 0, error |-> TRUE]>>

C26_Witness ==
  /\ stats # <<>> /\ stats.op = "mongodb.getTableStats" /\ stats.pc = "done"
  /\ stats.facts.indexCount = 2 /\ stats.facts.rowCount = 1
  /\ stats.issued = <<"estimatedDocumentCount", "indexes", "countDocuments">>
  /\ stats.failed = 2
  /\ stats.result = <<"value", [rowCount |-> 1, sizeBytes |-> 0, indexCount |-> 0]>>

\* ---------------------------------------------------------------------------
\* Schema inference of the document adapter: getTableSchema over the documents
\* of a collection. A document maps field names to values; a value has a type
\* and, for an object, its own fields. A collection is a sequence of groups,
\* each a document and the number of copies of it that follow one another.
\* ---------------------------------------------------------------------------

SampleOnly ==
  UNCHANGED <<clsVars, srvVars, unit, mcache, ident, oper, page, paging,
              edit, errs, stats, client>>

MaxGroups == 2

\* const sampleSize = 100
sampleSize == 100

Scalar(type) == [type |-> type, fields |-> <<>>]
Object(fields) == [type |-> "Object", fields |-> fields]

\* the values a field may hold; MongoDB stores field names with a dot in them
FieldValues(key) ==
  CASE key = "_id" -> {Scalar("ObjectId")}
    [] key = "a" -> {Scalar("string"), Scalar("null"), Scalar("Array"),
                     Object(<<>>), Object([b |-> Scalar("string")])}
    [] key = "a.b" -> {Scalar("string")}
    [] OTHER -> {Scalar("string"), Scalar("null")}

\* every document has an _id
Documents ==
  UNION {{d \in [keys \cup {"_id"} -> UNION {FieldValues(k) : k \in {"_id", "a", "a.b", "c"}}] :
            \A k \in DOMAIN d : d[k] \in FieldValues(k)}
         : keys \in SUBSET {"a", "a.b", "c"}}

Groups == [doc : Documents, copies : {1, sampleSize}]

Collections == UNION {[1..n -> Groups] : n \in 0..MaxGroups}

\* collection.find().limit(sampleSize).toArray(): the groups cut to the first
\* limit documents
RECURSIVE limit(_, _)
limit(groups, n) ==
  IF groups = <<>> \/ n = 0 THEN <<>>
  ELSE LET g == Head(groups) IN
       IF g.copies >= n THEN <<[g EXCEPT !.copies = n]>>
       ELSE <<g>> \o limit(Tail(groups), n - g.copies)

\* samples.length
RECURSIVE samplesLength(_)
samplesLength(groups) ==
  IF groups = <<>> THEN 0 ELSE Head(groups).copies + samplesLength(Tail(groups))

\* const fieldName = prefix ? `${prefix}.${key}` : key
fieldName(prefix, key) == IF prefix = "" THEN key ELSE prefix \o "." \o key

\* analyzeDocument(doc, prefix) over the keys still to visit: how often it
\* reaches stats.count++ for name. Nested objects are analyzed with the field's
\* name as prefix
RECURSIVE analyzeDocument(_, _, _, _)
analyzeDocument(doc, prefix, keys, name) ==
  IF keys = {} THEN 0
  ELSE LET key == CHOOSE k \in keys : TRUE
           value == doc[key]
           here == IF fieldName(prefix, key) = name THEN 1 ELSE 0
           below == IF value.type = "Object"
                      THEN analyzeDocument(value.fields, fieldName(prefix, key),
                                           DOMAIN value.fields, name)
                      ELSE 0
       IN  here + below + analyzeDocument(doc, prefix, keys \ {key}, name)

\* the types analyzeDocument adds for name: stats.types.add(getMongoType(value))
RECURSIVE typesOf(_, _, _)
typesOf(doc, prefix, name) ==
  UNION {({doc[key].type} \cap (IF fieldName(prefix, key) = name THEN {doc[key].type} ELSE {}))
           \cup (IF doc[key].type = "Object"
                   THEN typesOf(doc[key].fields, fieldName(prefix, key), name)
                   ELSE {})
         : key \in DOMAIN doc}

\* the names that can come up
FieldNames == {"_id", "a", "a.b", "c"}

\* fieldStats.get(name).count after for (const doc of samples) analyzeDocument(doc)
RECURSIVE statsCount(_, _)
statsCount(samples, name) ==
  IF samples = <<>> THEN 0
  ELSE Head(samples).copies * analyzeDocument(Head(samples).doc, "", DOMAIN Head(samples).doc, name)
         + statsCount(Tail(samples), name)

statsTypes(samples, name) ==
  UNION {typesOf(samples[i].doc, "", name) : i \in DOMAIN samples}

\* a.name.localeCompare(b.name) < 0 on the names that come up
NameOrder == <<"_id", "a", "a.b", "c">>
rank(name) == CHOOSE i \in DOMAIN NameOrder : NameOrder[i] = name

\* the comparator of columns.sort: _id first, then the higher frequency, then
\* the name; frequencies of one schema share their denominator
before(x, y) ==
  IF x.name = "_id" THEN TRUE
  ELSE IF y.name = "_id" THEN FALSE
  ELSE IF x.frequency.count # y.frequency.count
         THEN x.frequency.count > y.frequency.count
  ELSE rank(x.name) <= rank(y.name)

RECURSIVE sort(_)
sort(columns) ==
  IF columns = {} THEN <<>>
  ELSE LET first == CHOOSE x \in columns : \A y \in columns : before(x, y)
       IN  <<first>> \o sort(columns \ {first})

\* columns.push({ name, type, nullable: stats.count < samples.length,
\* isPrimaryKey, isForeignKey, frequency: stats.count / samples.length }); the
\* quotient is kept as its two numbers
columnInfo(samples, name) ==
  [name |-> name,
   types |-> statsTypes(samples, name),
   nullable |-> statsCount(samples, name) < samplesLength(samples),
   isPrimaryKey |-> name = "_id",
   frequency |-> [count |-> statsCount(samples, name), of |-> samplesLength(samples)]]

\* MongoDBAdapter.getTableSchema on the documents find returned
getTableSchema(groups) ==
  LET samples == limit(groups, sampleSize) IN
  IF samplesLength(samples) = 0 THEN <<>>
  ELSE sort({columnInfo(samples, name) :
               name \in {n \in FieldNames : statsCount(samples, n) > 0}})

\* getTableSchema after await collection.find().limit(sampleSize).toArray()
MongoGetTableSchema ==
  /\ sample.pc = "start"
  /\ sample' = [sample EXCEPT !.pc = "done",
                              !.samples = limit(sample.collection, sampleSize),
                              !.columns = getTableSchema(sample.collection)]
  /\ SampleOnly

\* find fails: the operation throws
MongoGetTableSchemaThrew ==
  /\ sample.pc = "start"
  /\ sample' = [sample EXCEPT !.pc = "thrown"]
  /\ SampleOnly

InitSample ==
  /\ InitServer /\ InitNoQuery
  /\ \E c \in Collections :
       sample = [collection |-> c, pc |-> "start", samples |-> <<>>, columns |-> <<>>]
  /\ NoUnit /\ NoCache /\ NoIdent /\ NoOper /\ NoPage
  /\ NoEdit /\ NoErrs /\ NoStats /\ NoClient

NextSample ==
  \/ MongoGetTableSchema
  \/ MongoGetTableSchemaThrew

SpecSample == InitSample /\ [][NextSample]_vars

\* the field names of a document, nested ones by their dotted path
RECURSIVE PathsOf(_, _)
PathsOf(doc, prefix) ==
  UNION {{fieldName(prefix, key)}
           \cup (IF doc[key].type = "Object"
                   THEN PathsOf(doc[key].fields, fieldName(prefix, key))
                   ELSE {})
         : key \in DOMAIN doc}

\* the number of sampled documents that contain the field
RECURSIVE Containing(_, _)
Containing(samples, name) ==
  IF samples = <<>> THEN 0
  ELSE (IF name \in PathsOf(Head(samples).doc, "") THEN Head(samples).copies ELSE 0)
         + Containing(Tail(samples), name)

\* C27: each inferred column's frequency is (sampled documents containing the
\* field) / (sample size) and lies in [0,1], the column is nullable exactly
\* when the frequency is below 1, the sample has at most 100 documents, and an
\* empty collection yields no columns.
C27_FrequencyIsPresenceShare ==
  (sample # <<>> /\ sample.pc = "done") =>
    /\ samplesLength(sample.samples) <= sampleSize
    /\ sample.collection = <<>> => sample.columns = <<>>
    /\ \A i \in DOMAIN sample.columns :
         LET col == sample.columns[i] IN
         /\ col.frequency.of = samplesLength(sample.samples)
         /\ col.frequency.count = Containing(sample.samples, col.name)
         /\ col.frequency.count >= 0 /\ col.frequency.count <= col.frequency.of
         /\ col.nullable <=> col.frequency.count < col.frequency.of

C27_Witness ==
  /\ sample # <<>> /\ sample.pc = "done"
  /\ Len(sample.collection) = 1
  /\ sample.collection[1].copies = 1
  /\ sample.collection[1].doc =
       [_id |-> Scalar("ObjectId"), a |-> Object([b |-> Scalar("string")])]
         @@ ("a.b" :> Scalar("string"))
  /\ \E i \in DOMAIN sample.columns :
       /\ sample.columns[i].name = "a.b"
       /\ sample.columns[i].frequency = [count |-> 2, of |-> 1]
       /\ ~sample.columns[i].nullable


\* C28: no insertRow / updateRow / deleteRow is called at a moment when the
\* server-held read-only flag of the connection is true, also when a settings
\* request turns read-only on while the write handler awaits a reconnect.
C28_NoDispatchUnderReadOnly ==
  /\ \A r \in Slots :
       (reqs[r].kind \in WriteKinds /\ reqs[r].called) => reqs[r].roAtCall = <<FALSE>>
  /\ (resp.kind \in WriteKinds /\ resp.called) => resp.roAtCall = <<FALSE>>

\* C28 witness: an insert that read the flag as false, awaited connect() and
\* called insertRow under a flag that had become true
C28_Witness ==
  /\ resp.kind = "insert" /\ resp.called /\ resp.status = 200
  /\ resp.roSeen = <<FALSE>> /\ resp.roAtCall = <<TRUE>>
  /\ resp.id \in DOMAIN readOnlyState /\ readOnlyState[resp.id]


\* an adapter that no registry entry refers to: every adapter is made by
\* getOrCreateAdapter under its id, so it is one whose removal has completed
Removed(a) == \A id \in DOMAIN adapterCache : adapterCache[id] # a

\* C29: after the removal of a connection id has completed the removed adapter
\* holds no open pool and opens none again, whatever handlers hold the adapter.
C29_RemovedAdapterHoldsNoPool ==
  \A p \in DOMAIN pools : pools[p].open => ~Removed(pools[p].owner)


\* C29 witness: a table-list request that reconnected the adapter while its
\* removal awaited disconnect() has answered; the removal has completed, the
\* pool the request opened is open and belongs to the removed adapter
C29_Witness ==
  /\ resp.kind = "tables" /\ resp.pool # 0 /\ resp.adapter # 0
  /\ resp.id \notin DOMAIN adapterCache
  /\ Removed(resp.adapter)
  /\ pools[resp.pool].open /\ pools[resp.pool].owner = resp.adapter

\* ---------------------------------------------------------------------------
\* The client's connection store beside the server's flag: connect, quick
\* connect, the read-only toggle, disconnect and page reload. The store's state
\* is kept with what the persist middleware wrote of it; the server is what
\* the routes keep per connection id. One request of the page is in flight at
\* a time; a reload loses the page's hold on it. last is the kind of the
\* request the page finished last.
\* ---------------------------------------------------------------------------

ClientOnly ==
  UNCHANGED <<clsVars, srvVars, unit, mcache, ident, oper, page, paging,
              edit, errs, stats, sample>>

\* partialize: connections, readOnlyMode, activeConnectionId
partialize(state) ==
  [connections |-> state.connections, readOnlyMode |-> state.readOnlyMode,
   activeConnectionId |-> state.activeConnectionId]

\* set(...) of the store: the new state, persisted
store(c, state) == [c EXCEPT !.state = state, !.storage = partialize(state)]

\* fetch(...) goes out
fetch(c, request) == [c EXCEPT !.pending = <<request>>]

Request(kind, id, readOnly) ==
  [kind |-> kind, connectionId |-> id, readOnly |-> readOnly, served |-> FALSE,
   success |-> FALSE, status |-> 0, lost |-> FALSE, new |-> FALSE]

\* the server has answered: the page gets the response unless it was reloaded
answer(c, success, status) ==
  IF c.pending[1].lost THEN [c EXCEPT !.pending = <<>>]
  ELSE [c EXCEPT !.pending[1].served = TRUE, !.pending[1].success = success,
                 !.pending[1].status = status]

Sent(kind) ==
  /\ client.pending # <<>> /\ client.pending[1].kind = kind
  /\ ~client.pending[1].served
Answered(kind) ==
  /\ client.pending # <<>> /\ client.pending[1].kind = kind
  /\ client.pending[1].served

\* handleConnect: addConnection, then POST /api/connect with type,
\* connectionString and connectionId
HandleConnect(id) ==
  /\ client.pending = <<>> /\ id \notin client.state.connections
  /\ client' = fetch(store(client, [client.state EXCEPT !.connections = @ \cup {id}]),
                     [Request("connect", id, <<>>) EXCEPT !.new = TRUE])
  /\ ClientOnly

\* handleQuickConnect: POST /api/connect for a saved connection
HandleQuickConnect(id) ==
  /\ client.pending = <<>> /\ id \in client.state.connections
  /\ client' = fetch(client, Request("connect", id, <<>>))
  /\ ClientOnly

\* setReadOnlyMode(connectionId, readOnly ?? false) of the connect route
connectReadOnly(c, readOnly) == IF readOnly = <<>> THEN FALSE ELSE readOnly[1]

\* POST /api/connect on the server: a failed test answers success: false; else
\* the adapter is registered and the flag set
ServeConnect(ok) ==
  /\ Sent("connect")
  /\ LET req == client.pending[1] IN
     client' =
       IF ~ok THEN answer(client, FALSE, 200)
       ELSE answer([client EXCEPT
                      !.adapterCache = @ \cup {req.connectionId},
                      !.readOnlyState =
                        setReadOnlyMode(@, req.connectionId,
                                        connectReadOnly(client, req.readOnly))],
                   TRUE, 200)
  /\ ClientOnly

\* handleConnect / handleQuickConnect after the response
ConnectAnswered ==
  /\ Answered("connect")
  /\ LET req == client.pending[1]
         state == IF req.success
                    THEN [client.state EXCEPT !.activeConnectionId = req.connectionId]
                  ELSE IF req.new
                    THEN [client.state EXCEPT !.connections = @ \ {req.connectionId}]
                  ELSE client.state
     IN  client' = [store(client, state) EXCEPT !.pending = <<>>, !.last = "connect"]
  /\ ClientOnly

\* toggleReadOnlyMode up to its fetch; the switch is on the studio page, which
\* shows an active connection
ToggleReadOnlyMode ==
  /\ client.pending = <<>> /\ client.state.activeConnectionId # ""
  /\ LET newValue == ~client.state.readOnlyMode IN
     client' = fetch(store(client, [client.state EXCEPT !.readOnlyMode = newValue]),
                     Request("settings", client.state.activeConnectionId, <<newValue>>))
  /\ ClientOnly

\* POST /api/settings on the server: 404 without an adapter, else the flag is set
ServeSettings ==
  /\ Sent("settings")
  /\ LET req == client.pending[1] IN
     client' =
       IF req.connectionId \notin client.adapterCache THEN answer(client, FALSE, 404)
       ELSE answer([client EXCEPT
                      !.readOnlyState = setReadOnlyMode(@, req.connectionId, req.readOnly[1])],
                   TRUE, 200)
  /\ ClientOnly

\* toggleReadOnlyMode after the response: the status is not looked at
SettingsAnswered ==
  /\ Answered("settings")
  /\ client' = [client EXCEPT !.pending = <<>>, !.last = "settings"]
  /\ ClientOnly

\* fetch rejects (the network failed, before or after the server acted):
\* toggleReadOnlyMode reverts, set({ readOnlyMode: !newValue })
SettingsRejected ==
  /\ client.pending # <<>> /\ client.pending[1].kind = "settings"
  /\ ~client.pending[1].lost
  /\ client' = [store(client, [client.state EXCEPT
                                 !.readOnlyMode = ~client.pending[1].readOnly[1]])
                  EXCEPT !.pending = <<>>, !.last = "rejected"]
  /\ ClientOnly

\* handleDisconnect up to its fetch
HandleDisconnect ==
  /\ client.pending = <<>> /\ client.state.activeConnectionId # ""
  /\ client' = fetch(client, Request("disconnect", client.state.activeConnectionId, <<>>))
  /\ ClientOnly

\* DELETE /api/connect on the server: removeAdapter, clearReadOnlyState
ServeDisconnect ==
  /\ Sent("disconnect")
  /\ LET req == client.pending[1] IN
     client' = answer([client EXCEPT
                         !.adapterCache = @ \ {req.connectionId},
                         !.readOnlyState = clearReadOnlyState(@, req.connectionId)],
                      TRUE, 200)
  /\ ClientOnly

\* handleDisconnect after the response: setActiveConnection(null)
DisconnectAnswered ==
  /\ Answered("disconnect")
  /\ client' = [store(client, [client.state EXCEPT !.activeConnectionId = ""])
                  EXCEPT !.pending = <<>>, !.last = "disconnect"]
  /\ ClientOnly

\* the page is loaded again: the store is made anew and rehydrated from
\* storage; a request in flight still reaches the server, its response no one
Reload ==
  /\ client' =
       [client EXCEPT
          !.state = [connections |-> client.storage.connections,
                     activeConnectionId |-> client.storage.activeConnectionId,
                     readOnlyMode |-> client.storage.readOnlyMode],
          !.pending = IF client.pending = <<>> \/ client.pending[1].served THEN <<>>
                      ELSE <<[client.pending[1] EXCEPT !.lost = TRUE]>>]
  /\ ClientOnly

InitClient ==
  /\ InitServer /\ InitNoQuery
  /\ client = [state |-> [connections |-> {}, activeConnectionId |-> "",
                          readOnlyMode |-> FALSE],
               storage |-> [connections |-> {}, readOnlyMode |-> FALSE,
                            activeConnectionId |-> ""],
               adapterCache |-> {}, readOnlyState |-> <<>>, pending |-> <<>>,
               last |-> ""]
  /\ NoUnit /\ NoCache /\ NoIdent /\ NoOper /\ NoPage
  /\ NoEdit /\ NoErrs /\ NoStats /\ NoSample

NextClient ==
  \/ \E id \in ConnIds : HandleConnect(id)
  \/ \E id \in ConnIds : HandleQuickConnect(id)
  \/ \E ok \in BOOLEAN : ServeConnect(ok)
  \/ ConnectAnswered
  \/ ToggleReadOnlyMode
  \/ ServeSettings
  \/ SettingsAnswered
  \/ SettingsRejected
  \/ HandleDisconnect
  \/ ServeDisconnect
  \/ DisconnectAnswered
  \/ Reload

SpecClient == InitClient /\ [][NextClient]_vars

\* C30: with no request of the page in flight, whenever the client shows
\* read-only mode as enabled for the active connection, the server-held
\* read-only flag of that connection is true.
C30_ClientFlagImpliesServerFlag ==
  (/\ client # <<>> /\ client.pending = <<>>
   /\ client.state.activeConnectionId # "" /\ client.state.readOnlyMode)
    => isReadOnlyMode(client.readOnlyState, client.state.activeConnectionId)

\* C30 witness: a connect made while the persisted client flag was on has
\* been answered; the page shows read-only, the server holds false
C30_Witness ==
  /\ client # <<>> /\ client.pending = <<>> /\ client.last = "connect"
  /\ client.state.activeConnectionId = "conn_1" /\ client.state.readOnlyMode
  /\ client.storage.readOnlyMode
  /\ "conn_1" \in client.adapterCache
  /\ "conn_1" \in DOMAIN client.readOnlyState /\ ~client.readOnlyState["conn_1"]

====
